---- MODULE Spec2Model ----
(***************************************************************************)
(* A model of the CVCP backend data pipeline:                              *)
(*   clients/multi_chain_aggregator.py  MultiChainDataAggregator           *)
(*   services/data_processor.py         DataProcessor                      *)
(*   services/contract_bridge.py        convert_dataprocessor_to_metrics   *)
(*   clients/{alchemy,zapper,moralis}_client.py   the client entry methods *)
(*   api/credit_score_api.py            the route handlers                 *)
(*                                                                         *)
(* Python dicts are functions from string keys; d.get(k, default) is       *)
(* Get(d, k, default).  Provider payloads carry the numeric keys that the  *)
(* aggregator reads, each number with its Python type (PyInt, PyFloat);    *)
(* floats are whole numbers here, and a value the code halves (a float) is *)
(* kept doubled, as said where it is.                                      *)
(* Time is in whole seconds since the request started; the clock of the    *)
(* API process is in whole seconds too.                                    *)
(***************************************************************************)
EXTENDS Integers, Sequences, FiniteSets, TLC

VARIABLES
    api_key,              \* per source: whether its API key is in the environment
    clients,              \* aggregator.clients: source -> constructed or None
    pc,                   \* position of the request: idle, gathering, done
    address,              \* the address argument of the request
    now,                  \* seconds elapsed since the request started
    task,                 \* per source: the _collect_data_with_retry coroutine
    collection_results,   \* what _collect_all_data_with_comprehensive_retry returned
    raw_data,             \* what fetch_user_comprehensive_data returned
    raised,               \* whether an exception escaped, per layer
    fault,                \* the step of the request in which an exception was raised
    contract_metrics,     \* first component of process_user_behavioral_data
    processing_metadata,  \* second component of process_user_behavioral_data
    processed_data,       \* argument of convert_dataprocessor_to_metrics
    enhanced_metrics,     \* result of convert_dataprocessor_to_metrics
    call,                 \* a helper function called on its own: name, arguments
    returned,             \* what that call returned
    gemini_ai,            \* credit_score_api.gemini_ai: whether the service exists
    clock,                \* time.time() of the API process, in seconds
    request_history,      \* credit_score_api.request_history: address -> times
    response,             \* the last request the API handled and what it did
    loop,                 \* a retry loop run on its own: position and outcomes
    requests,             \* overlapping calculate-score requests: position, result
    chain                 \* the contract: the stored score, the updates submitted

vars == <<api_key, clients, pc, address, now, task, collection_results, raw_data,
          raised, fault, contract_metrics, processing_metadata, processed_data,
          enhanced_metrics, call, returned, gemini_ai, clock, request_history,
          response, loop, requests, chain>>

pipelineVars == <<api_key, clients, pc, address, now, task, collection_results,
                  raw_data, raised, fault, contract_metrics, processing_metadata>>

convertVars == <<processed_data, enhanced_metrics>>

callVars == <<call, returned>>

apiVars == <<gemini_ai, clock, request_history, response>>

loopVars == <<loop>>

flowVars == <<requests, chain>>

(***************************************************************************)
(* Program constants.                                                      *)
(***************************************************************************)
request_timeout == 60
attempt_timeout == 60
collect_max_retries == 3
collect_retry_delay == 3
AddressLength == 42
max_usd_value_cap == 10000000
ContractValueCap == 1000000000
default_gas_efficiency == 50
staleness_hours == 24
TotalSources == 3

(***************************************************************************)
(* Bounds of the model.                                                    *)
(***************************************************************************)
\* seconds a client call takes when it answers
FastCall == 2
\* seconds a slower client call takes when it answers
MediumCall == 4
\* seconds a client call would take when it hangs past the attempt timeout
SlowCall == 65
\* wall-clock second at which the request starts
StartEpoch == 1000

Sources == <<"alchemy", "zapper", "moralis">>
SourceSet == {"alchemy", "zapper", "moralis"}

\* Python None where a string is expected (an error text)
NoneStr == "<None>"
EmptyDict == [k \in {} |-> 0]

Min(a, b) == IF a <= b THEN a ELSE b
Max(a, b) == IF a >= b THEN a ELSE b

\* dict.get(key, default)
Get(d, k, default) == IF k \in DOMAIN d THEN d[k] ELSE default

\* d[k] = v on a dict
With(d, k, v) == [x \in DOMAIN d \cup {k} |-> IF x = k THEN v ELSE d[x]]

\* bool(d) of a dict: an empty dict is falsy
Truthy(d) == DOMAIN d # {}

RECURSIVE SumOver(_, _)
SumOver(f, S) ==
    IF S = {} THEN 0
    ELSE LET x == CHOOSE y \in S : TRUE IN f[x] + SumOver(f, S \ {x})

(***************************************************************************)
(* Addresses: a str is a sequence of characters; a caller can also pass a  *)
(* value that is no str.                                                   *)
(***************************************************************************)
HexChars == {"0", "1", "2", "3", "4", "5", "6", "7", "8", "9",
             "a", "b", "c", "d", "e", "f", "A", "B", "C", "D", "E", "F"}

Str(chars) == [isStr |-> TRUE, chars |-> chars]
NotAStr == [isStr |-> FALSE, chars |-> <<>>]

LowerChar(c) ==
    CASE c = "A" -> "a" [] c = "B" -> "b" [] c = "C" -> "c" [] c = "D" -> "d"
      [] c = "E" -> "e" [] c = "F" -> "f" [] c = "X" -> "x" [] c = "G" -> "g"
      [] OTHER -> c

\* str.lower()
Lower(s) == [i \in 1..Len(s) |-> LowerChar(s[i])]

\* Variant of _is_valid_address without the test of the body's characters.
_is_valid_address_unchecked_body(a) ==
    /\ a.isStr
    /\ Len(a.chars) >= 2 /\ a.chars[1] = "0" /\ a.chars[2] = "x"
    /\ Len(a.chars) = AddressLength

_is_valid_address(a) ==
    /\ a.isStr
    /\ Len(a.chars) >= 2 /\ a.chars[1] = "0" /\ a.chars[2] = "x"
    /\ Len(a.chars) = AddressLength
    /\ \A i \in 3..Len(a.chars) : a.chars[i] \in HexChars

Body(n, odd, even) == [i \in 1..n |-> IF i % 2 = 1 THEN odd ELSE even]
WithCharAt(s, p, c) == [i \in 1..Len(s) |-> IF i = p THEN c ELSE s[i]]
BodyLength == AddressLength - 2

ValidAddress == Str(<<"0", "x">> \o Body(BodyLength, "a", "F"))

MalformedAddresses ==
    { Str(<<"0", "x">> \o Body(BodyLength - 1, "a", "F")),          \* too short
      Str(<<"0", "x">> \o Body(BodyLength + 1, "a", "F")),          \* too long
      Str(Body(BodyLength, "a", "F")),                              \* no prefix
      Str(<<"0", "X">> \o Body(BodyLength, "a", "F")),              \* wrong prefix
      Str(<<"1", "x">> \o Body(BodyLength, "a", "F")),
      Str(<<"0", "x">> \o WithCharAt(Body(BodyLength, "a", "F"), 1, "G")),
      Str(<<"0", "x">> \o WithCharAt(Body(BodyLength, "a", "F"), BodyLength, "g")),
      Str(<<"0", "x">> \o WithCharAt(Body(BodyLength, "a", "F"), 7, " ")),
      Str(<<>>),
      Str(<<"0">>) }

Addresses == {ValidAddress} \cup MalformedAddresses \cup {NotAStr}

(***************************************************************************)
(* Provider payloads: what the three client calls return.                  *)
(***************************************************************************)
\* A Python number with its type: int or float.  Floats are whole numbers here.
PyInt(n) == [type |-> "int", value |-> n]
PyFloat(n) == [type |-> "float", value |-> n]

\* AlchemyClient._get_empty_transaction_metrics
AlchemyEmptyMetrics ==
    [total_transactions |-> PyInt(0), active_chains |-> PyInt(0),
     monthly_txn_count |-> PyInt(0), weekly_txn_count |-> PyInt(0),
     avg_value_usd |-> PyFloat(0), gas_efficiency |-> PyFloat(50),
     consistency_score |-> PyFloat(0), activity_score |-> PyInt(0),
     cross_chain_score |-> PyInt(0), data_quality_score |-> PyInt(0)]

\* AlchemyClient._calculate_enhanced_metrics for an address with m transfers
\* in the last 30 days
AlchemyMetrics(m) ==
    [total_transactions |-> PyInt(4 * m), active_chains |-> PyInt(2),
     monthly_txn_count |-> PyInt(m), weekly_txn_count |-> PyInt(m \div 4),
     avg_value_usd |-> PyFloat(1500), gas_efficiency |-> PyFloat(75),
     consistency_score |-> PyFloat(60), activity_score |-> PyInt(Min(100, m)),
     cross_chain_score |-> PyInt(50),
     data_quality_score |-> PyInt(Min(100, 40 + m \div 2 + 25))]

MonthlyCounts == {10, 60}

AlchemyPayloads == {AlchemyEmptyMetrics} \cup {AlchemyMetrics(m) : m \in MonthlyCounts}

\* ZapperClient._get_empty_defi_metrics
ZapperEmptyMetrics ==
    [unique_protocols |-> PyInt(0), total_balance_usd |-> PyFloat(0),
     lp_positions |-> PyInt(0), diversity_score |-> PyFloat(0),
     interaction_depth |-> PyFloat(0), sophistication_score |-> PyInt(0),
     yield_analysis |-> [active_farming |-> FALSE],
     data_quality_score |-> PyInt(0)]

\* ZapperClient._calculate_enhanced_defi_metrics
ZapperMetrics(protocols, balance, sophistication) ==
    [unique_protocols |-> PyInt(protocols), total_balance_usd |-> PyFloat(balance),
     lp_positions |-> PyInt(protocols \div 3),
     diversity_score |-> PyFloat(Min(100, protocols * 8)),
     interaction_depth |-> PyFloat(Min(100, protocols * 6)),
     sophistication_score |-> PyInt(sophistication),
     yield_analysis |-> [active_farming |-> protocols > 4],
     data_quality_score |-> PyInt(Min(100, 50 + protocols * 5))]

ZapperPayloads == {ZapperEmptyMetrics, ZapperMetrics(12, 200000, 90)}

\* MoralisClient._get_enhanced_fallback_data
MoralisFallbackData ==
    [total_staked_usd |-> PyFloat(0), platform_count |-> PyInt(0),
     avg_duration_days |-> PyFloat(0), platform_diversity |-> PyFloat(0),
     claim_frequency |-> PyInt(0), staking_loyalty_score |-> PyFloat(0),
     sophistication_score |-> PyInt(0), data_quality_score |-> PyInt(0)]

\* MoralisClient._calculate_enhanced_staking_metrics
MoralisMetrics(staked, platforms, sophistication) ==
    [total_staked_usd |-> PyFloat(staked), platform_count |-> PyInt(platforms),
     avg_duration_days |-> PyFloat(120),
     platform_diversity |-> PyFloat(Min(100, platforms * 25)),
     claim_frequency |-> PyInt(platforms * 2),
     staking_loyalty_score |-> PyFloat(55),
     sophistication_score |-> PyInt(sophistication),
     data_quality_score |-> PyInt(Min(100, 30 + platforms * 10))]

MoralisPayloads == {MoralisFallbackData, MoralisMetrics(90000, 4, 95)}

Payloads(source) ==
    CASE source = "alchemy" -> AlchemyPayloads
      [] source = "zapper" -> ZapperPayloads
      [] source = "moralis" -> MoralisPayloads

ZeroActivityPayload(source) ==
    CASE source = "alchemy" -> AlchemyEmptyMetrics
      [] source = "zapper" -> ZapperEmptyMetrics
      [] source = "moralis" -> MoralisFallbackData

(***************************************************************************)
(* The entry method of each client.  Its try body either completes with    *)
(* the metrics p computed from the remote answers or raises (a timeout, an *)
(* HTTP error status, a connection failure or a malformed response that    *)
(* the inner retries did not absorb); the result says whether an exception *)
(* leaves the method and, if none does, the mapping returned.              *)
(***************************************************************************)
Bodies == {"completes", "raises"}

Returns(value) == [raised |-> FALSE, value |-> value]
Raises == [raised |-> TRUE, value |-> EmptyDict]

\* Variant of get_transaction_metrics without its except branch.
get_transaction_metrics_unguarded(body, p) ==
    IF body = "raises" THEN Raises ELSE Returns(p)

get_transaction_metrics(body, p) ==
    IF body = "raises" THEN Returns(AlchemyEmptyMetrics) ELSE Returns(p)

\* Variant of get_defi_metrics without its except branch.
get_defi_metrics_unguarded(body, p) ==
    IF body = "raises" THEN Raises ELSE Returns(p)

get_defi_metrics(body, p) ==
    IF body = "raises" THEN Returns(ZapperEmptyMetrics) ELSE Returns(p)

\* without an API key the method answers with the fallback data at once
get_staking_metrics(has_key, body, p) ==
    IF ~has_key THEN Returns(MoralisFallbackData)
    ELSE IF body = "raises" THEN Returns(MoralisFallbackData)
    ELSE Returns(p)

\* the collection_func handed to _collect_data_with_retry for a source
collection_func(source, has_key, body, p) ==
    CASE source = "alchemy" -> get_transaction_metrics(body, p)
      [] source = "zapper" -> get_defi_metrics(body, p)
      [] source = "moralis" -> get_staking_metrics(has_key, body, p)

\* Variant of Constructs in which every constructor raises without its key.
ConstructsOnlyWithKey(source, has_key) == has_key

\* AlchemyClient() and ZapperClient() raise ValueError when their API key is
\* not set; MoralisClient() raises in no case
Constructs(source, has_key) == source = "moralis" \/ has_key

(***************************************************************************)
(* MultiChainDataAggregator: pure helpers.                                 *)
(***************************************************************************)
_get_empty_transaction_metrics ==
    [transactionFrequency |-> PyInt(0), averageTransactionValue |-> PyInt(0),
     gasEfficiencyScore |-> PyInt(50), crossChainActivityCount |-> PyInt(0),
     consistencyMetric |-> PyInt(0), totalTransactions |-> PyInt(0),
     dataQualityScore |-> PyInt(0)]

_get_empty_defi_metrics ==
    [protocolInteractionCount |-> PyInt(0), totalDeFiBalanceUSD |-> PyInt(0),
     liquidityPositionCount |-> PyInt(0), protocolDiversityScore |-> PyInt(0),
     interactionDepthScore |-> PyInt(0), yieldFarmingActive |-> PyInt(0),
     dataQualityScore |-> PyInt(0)]

_get_empty_staking_metrics ==
    [totalStakedUSD |-> PyInt(0), stakingDurationDays |-> PyInt(0),
     stakingPlatformCount |-> PyInt(0), rewardClaimFrequency |-> PyInt(0),
     stakingLoyaltyScore |-> PyInt(0), platformDiversityScore |-> PyInt(0),
     dataQualityScore |-> PyInt(0)]

BoolToInt(b) == IF b THEN 1 ELSE 0

\* Variant of int that hands its argument on as it came.
int_unconverted(v) == v

\* the builtin int on a number: the result is an int
int(v) == PyInt(v.value)

_extract_enhanced_transaction_metrics(alchemy_data) ==
    IF ~Truthy(alchemy_data) THEN _get_empty_transaction_metrics
    ELSE [transactionFrequency |-> int(Get(alchemy_data, "monthly_txn_count", PyInt(0))),
          averageTransactionValue |-> int(Get(alchemy_data, "avg_value_usd", PyInt(0))),
          gasEfficiencyScore |-> int(Get(alchemy_data, "gas_efficiency", PyInt(50))),
          crossChainActivityCount |-> int(Get(alchemy_data, "active_chains", PyInt(0))),
          consistencyMetric |-> int(Get(alchemy_data, "consistency_score", PyInt(0))),
          totalTransactions |-> int(Get(alchemy_data, "total_transactions", PyInt(0))),
          weeklyTransactionCount |-> int(Get(alchemy_data, "weekly_txn_count", PyInt(0))),
          activityScore |-> int(Get(alchemy_data, "activity_score", PyInt(0))),
          crossChainScore |-> int(Get(alchemy_data, "cross_chain_score", PyInt(0))),
          dataQualityScore |-> int(Get(alchemy_data, "data_quality_score", PyInt(0)))]

_extract_enhanced_defi_metrics(zapper_data) ==
    IF ~Truthy(zapper_data) THEN _get_empty_defi_metrics
    ELSE [protocolInteractionCount |-> int(Get(zapper_data, "unique_protocols", PyInt(0))),
          totalDeFiBalanceUSD |-> int(Get(zapper_data, "total_balance_usd", PyInt(0))),
          liquidityPositionCount |-> int(Get(zapper_data, "lp_positions", PyInt(0))),
          protocolDiversityScore |-> int(Get(zapper_data, "diversity_score", PyInt(0))),
          interactionDepthScore |-> int(Get(zapper_data, "interaction_depth", PyInt(0))),
          yieldFarmingActive |->
              PyInt(BoolToInt(Get(Get(zapper_data, "yield_analysis", EmptyDict),
                                  "active_farming", FALSE))),
          sophisticationScore |-> int(Get(zapper_data, "sophistication_score", PyInt(0))),
          dataQualityScore |-> int(Get(zapper_data, "data_quality_score", PyInt(0)))]

_extract_enhanced_staking_metrics(moralis_data) ==
    IF ~Truthy(moralis_data) THEN _get_empty_staking_metrics
    ELSE [totalStakedUSD |-> int(Get(moralis_data, "total_staked_usd", PyInt(0))),
          stakingDurationDays |-> int(Get(moralis_data, "avg_duration_days", PyInt(0))),
          stakingPlatformCount |-> int(Get(moralis_data, "platform_count", PyInt(0))),
          rewardClaimFrequency |-> int(Get(moralis_data, "claim_frequency", PyInt(0))),
          stakingLoyaltyScore |-> int(Get(moralis_data, "staking_loyalty_score", PyInt(0))),
          platformDiversityScore |-> int(Get(moralis_data, "platform_diversity", PyInt(0))),
          sophisticationScore |-> int(Get(moralis_data, "sophistication_score", PyInt(0))),
          dataQualityScore |-> int(Get(moralis_data, "data_quality_score", PyInt(0)))]

\* sophistication2 is twice the sophistication argument (the caller passes the
\* mean of two scores: a float)
\* Variant of _categorize_user_profile that tests the active_defi_user rule
\* before the two rules the code puts ahead of it.
_categorize_user_profile_defi_first(portfolio_value, activity_score, sophistication2, tx_activity, defi_activity, staking_activity) ==
    IF portfolio_value > 10000 /\ defi_activity > 5
    THEN "active_defi_user"
    ELSE IF portfolio_value > 100000 /\ activity_score > 80 /\ sophistication2 > 2 * 80
    THEN "whale_power_user"
    ELSE IF portfolio_value > 50000 /\ activity_score > 60 /\ sophistication2 > 2 * 60
    THEN "advanced_defi_user"
    ELSE IF staking_activity > 2 /\ portfolio_value > 5000
    THEN "staking_focused_user"
    ELSE IF tx_activity > 10 /\ portfolio_value > 1000
    THEN "active_crypto_user"
    ELSE IF portfolio_value > 100
    THEN "casual_user"
    ELSE "newcomer"

\* the rules with active_crypto_user not asking for a portfolio value
_categorize_user_profile_by_activity(portfolio_value, activity_score, sophistication2, tx_activity, defi_activity, staking_activity) ==
    IF portfolio_value > 100000 /\ activity_score > 80 /\ sophistication2 > 2 * 80
    THEN "whale_power_user"
    ELSE IF portfolio_value > 50000 /\ activity_score > 60 /\ sophistication2 > 2 * 60
    THEN "advanced_defi_user"
    ELSE IF portfolio_value > 10000 /\ defi_activity > 5
    THEN "active_defi_user"
    ELSE IF staking_activity > 2 /\ portfolio_value > 5000
    THEN "staking_focused_user"
    ELSE IF tx_activity > 10
    THEN "active_crypto_user"
    ELSE IF portfolio_value > 100
    THEN "casual_user"
    ELSE "newcomer"

_categorize_user_profile(portfolio_value, activity_score, sophistication2, tx_activity, defi_activity, staking_activity) ==
    IF portfolio_value > 100000 /\ activity_score > 80 /\ sophistication2 > 2 * 80
    THEN "whale_power_user"
    ELSE IF portfolio_value > 50000 /\ activity_score > 60 /\ sophistication2 > 2 * 60
    THEN "advanced_defi_user"
    ELSE IF portfolio_value > 10000 /\ defi_activity > 5
    THEN "active_defi_user"
    ELSE IF staking_activity > 2 /\ portfolio_value > 5000
    THEN "staking_focused_user"
    ELSE IF tx_activity > 10 /\ portfolio_value > 1000
    THEN "active_crypto_user"
    ELSE IF portfolio_value > 100
    THEN "casual_user"
    ELSE "newcomer"

_calculate_comprehensive_user_analytics(alchemy_data, zapper_data, moralis_data) ==
    LET defi_value == IF Truthy(zapper_data)
                      THEN Get(zapper_data, "total_balance_usd", PyInt(0)).value ELSE 0
        staking_value == IF Truthy(moralis_data)
                         THEN Get(moralis_data, "total_staked_usd", PyInt(0)).value ELSE 0
        total_portfolio_value == defi_value + staking_value
        tx_activity == IF Truthy(alchemy_data)
                       THEN Get(alchemy_data, "monthly_txn_count", PyInt(0)).value ELSE 0
        defi_activity == IF Truthy(zapper_data)
                         THEN Get(zapper_data, "unique_protocols", PyInt(0)).value ELSE 0
        staking_activity == IF Truthy(moralis_data)
                            THEN Get(moralis_data, "platform_count", PyInt(0)).value ELSE 0
        overall_activity_score ==
            Min(100, tx_activity * 2 + defi_activity * 5 + staking_activity * 10)
        defi_sophistication == IF Truthy(zapper_data)
                               THEN Get(zapper_data, "sophistication_score", PyInt(0)).value ELSE 0
        staking_sophistication == IF Truthy(moralis_data)
                                  THEN Get(moralis_data, "sophistication_score", PyInt(0)).value ELSE 0
        overall_sophistication2 == defi_sophistication + staking_sophistication
    IN [total_portfolio_value_usd |-> total_portfolio_value,
        defi_portfolio_value |-> defi_value,
        staking_portfolio_value |-> staking_value,
        overall_activity_score |-> overall_activity_score,
        overall_sophistication_score_x2 |-> overall_sophistication2,
        user_category |->
            _categorize_user_profile(total_portfolio_value, overall_activity_score,
                                     overall_sophistication2, tx_activity,
                                     defi_activity, staking_activity)]

\* Variant of _get_quality_grade whose comparisons are strict.
_get_quality_grade_strict(total_quality, successful_sources) ==
    LET d == Max(1, successful_sources)
        combined == 7 * total_quality + 100 * successful_sources * d
        Above(t) == combined > 10 * t * d
    IN IF Above(90) THEN "A+"
       ELSE IF Above(85) THEN "A"
       ELSE IF Above(80) THEN "B+"
       ELSE IF Above(75) THEN "B"
       ELSE IF Above(70) THEN "C+"
       ELSE IF Above(60) THEN "C"
       ELSE IF Above(50) THEN "D"
       ELSE "F"

\* combined_score = quality_score * 0.7 + completeness * 0.3, with
\* quality_score = total_quality / max(1, successful_sources) and
\* completeness = successful_sources / 3 * 100; the comparison
\* combined_score >= t is made on 10 * max(1, successful_sources) times each side
_get_quality_grade(total_quality, successful_sources) ==
    LET d == Max(1, successful_sources)
        combined == 7 * total_quality + 100 * successful_sources * d
        AtLeast(t) == combined >= 10 * t * d
    IN IF AtLeast(90) THEN "A+"
       ELSE IF AtLeast(85) THEN "A"
       ELSE IF AtLeast(80) THEN "B+"
       ELSE IF AtLeast(75) THEN "B"
       ELSE IF AtLeast(70) THEN "C+"
       ELSE IF AtLeast(60) THEN "C"
       ELSE IF AtLeast(50) THEN "D"
       ELSE "F"

\* Variant of CompletenessPercentage that rounds to the nearest integer.
CompletenessPercentageRounded(successful_sources) ==
    (2 * successful_sources * 100 + TotalSources) \div (2 * TotalSources)

\* int((successful_sources / 3) * 100): int() drops the fraction
CompletenessPercentage(successful_sources) ==
    (successful_sources * 100) \div TotalSources

_calculate_comprehensive_data_quality(results) ==
    LET ok == {x \in DOMAIN results : Get(results[x], "success", FALSE)}
        quality == [x \in ok |->
                       Get(Get(results[x], "data", EmptyDict),
                           "data_quality_score", PyInt(0)).value]
        total_quality == SumOver(quality, ok)
        successful_sources == Cardinality(ok)
    IN [overall_quality_score |-> total_quality \div Max(1, successful_sources),
        completeness_percentage |-> CompletenessPercentage(successful_sources),
        successful_sources |-> successful_sources,
        total_sources |-> TotalSources,
        quality_grade |-> _get_quality_grade(total_quality, successful_sources)]

\* a datetime rendered by .timestamp() is a float, by .isoformat() a str
Timestamp(type, value) == [type |-> type, value |-> value]

\* Variant of StatusSlot that leaves out an error that is None.
StatusSlotWithoutNone(results, source) ==
    LET r == Get(results, source, EmptyDict)
        slot == [success |-> Get(r, "success", FALSE),
                 attempts |-> Get(r, "attempts", 0),
                 collection_time |-> Get(r, "collection_time", 0)]
    IN IF Get(r, "error", NoneStr) = NoneStr THEN slot
       ELSE With(slot, "error", r.error)

StatusSlot(results, source) ==
    [success |-> Get(Get(results, source, EmptyDict), "success", FALSE),
     attempts |-> Get(Get(results, source, EmptyDict), "attempts", 0),
     collection_time |-> Get(Get(results, source, EmptyDict), "collection_time", 0),
     error |-> Get(Get(results, source, EmptyDict), "error", NoneStr)]

_structure_comprehensive_data(a, results, start_time) ==
    LET alchemy_data == Get(Get(results, "alchemy", EmptyDict), "data", EmptyDict)
        zapper_data == Get(Get(results, "zapper", EmptyDict), "data", EmptyDict)
        moralis_data == Get(Get(results, "moralis", EmptyDict), "data", EmptyDict)
    IN [address |-> Lower(a.chars),
        collection_timestamp |-> Timestamp("float", start_time),
        collection_date |-> Timestamp("str", start_time),
        structured_metrics |->
            [transaction_metrics |-> _extract_enhanced_transaction_metrics(alchemy_data),
             defi_metrics |-> _extract_enhanced_defi_metrics(zapper_data),
             staking_metrics |-> _extract_enhanced_staking_metrics(moralis_data)],
        collection_status |->
            [alchemy |-> StatusSlot(results, "alchemy"),
             zapper |-> StatusSlot(results, "zapper"),
             moralis |-> StatusSlot(results, "moralis")],
        user_analytics |->
            _calculate_comprehensive_user_analytics(alchemy_data, zapper_data,
                                                    moralis_data)]

\* the second definition in the class (line 766) is the one in force
_get_empty_comprehensive_data(a, start_time, error) ==
    [address |-> Lower(a.chars),
     collection_timestamp |-> Timestamp("float", start_time),
     collection_date |-> Timestamp("str", start_time),
     error |-> error,
     structured_metrics |->
         [transaction_metrics |-> _get_empty_transaction_metrics,
          defi_metrics |-> _get_empty_defi_metrics,
          staking_metrics |-> _get_empty_staking_metrics],
     collection_status |->
         [x \in SourceSet |->
             [success |-> FALSE, attempts |-> 0, collection_time |-> 0,
              error |-> error]],
     user_analytics |->
         [total_portfolio_value_usd |-> 0, overall_activity_score |-> 0,
          overall_sophistication_score_x2 |-> 0, user_category |-> "error"],
     data_quality_analysis |->
         [overall_quality_score |-> 0, completeness_percentage |-> 0,
          quality_grade |-> "F"]]

\* fetch_user_comprehensive_data from the collection results on: structure,
\* quality analysis, return; an exception on the way (internal_error) is
\* caught and turned into the empty bundle
BundleFrom(a, results, start_time, internal_error) ==
    IF internal_error
    THEN _get_empty_comprehensive_data(a, start_time, "internal error")
    ELSE With(_structure_comprehensive_data(a, results, start_time),
              "data_quality_analysis",
              _calculate_comprehensive_data_quality(results))

\* Variant of GlobalTimeoutResults that keeps the result of a finished task.
GlobalTimeoutResultsKeepingFinished ==
    [x \in SourceSet |->
        IF task[x].st = "done" THEN task[x].result
        ELSE [success |-> FALSE, data |-> EmptyDict, error |-> "Global timeout",
              attempts |-> 0, collection_time |-> request_timeout]]

\* the three result dicts returned when asyncio.wait_for times out
GlobalTimeoutResults ==
    [x \in SourceSet |->
        [success |-> FALSE, data |-> EmptyDict, error |-> "Global timeout",
         attempts |-> 0, collection_time |-> request_timeout]]

NotExecutedResult ==
    [success |-> FALSE, data |-> EmptyDict,
     error |-> "Client not initialized or task not executed",
     attempts |-> 0, collection_time |-> 0]

(***************************************************************************)
(* DataProcessor: pure helpers.                                            *)
(***************************************************************************)
SecondsPerHour == 3600

\* datetime.fromisoformat accepts a str only; anything else raises TypeError
FromIsoformat(ts) == [ok |-> ts.type = "str", value |-> ts.value]

\* wall_now is datetime.now() at the time of the call
_validate_data_quality(bundle, wall_now) ==
    LET collection_status == Get(bundle, "collection_status", EmptyDict)
        successful_sources ==
            Cardinality({x \in DOMAIN collection_status :
                            Get(collection_status[x], "success", FALSE)})
        issues1 == IF successful_sources = 0
                   THEN <<"No successful data sources">> ELSE <<>>
        score1 == IF successful_sources = 0 THEN 0 ELSE successful_sources * 25
        has_time == "collection_timestamp" \in DOMAIN bundle
                    /\ bundle.collection_timestamp.value # 0
        parsed == FromIsoformat(bundle.collection_timestamp)
        stale == (wall_now - parsed.value) > staleness_hours * SecondsPerHour
        issues2 == IF ~has_time THEN <<>>
                   ELSE IF ~parsed.ok THEN <<"Invalid collection timestamp">>
                   ELSE IF stale THEN <<"Data is stale">>
                   ELSE <<>>
        score2 == IF has_time /\ parsed.ok /\ ~stale THEN 25 ELSE 0
        score3 == IF Truthy(Get(bundle, "structured_metrics", EmptyDict)) THEN 25 ELSE 0
        score4 == IF Get(Get(bundle, "user_analytics", EmptyDict),
                         "user_category", NoneStr) # "newcomer"
                  THEN 25 ELSE 0
        issues == issues1 \o issues2
        quality_score == score1 + score2 + score3 + score4
    IN [is_valid |-> (Len(issues) = 0 \/ quality_score >= 50),
        quality_score |-> Min(100, quality_score),
        issues |-> issues,
        successful_sources |-> successful_sources,
        recommendation |-> IF quality_score >= 50 THEN "proceed"
                           ELSE "retry_collection"]

_process_transaction_data(tx_data, status_data) ==
    LET monthly_txns == Get(tx_data, "monthly_txn_count", 0)
        avg_value == Get(tx_data, "avg_value_usd", 0)
        gas_efficiency == Get(tx_data, "gas_efficiency", default_gas_efficiency)
        active_chains == Get(tx_data, "active_chains", 0)
        consistency == Get(tx_data, "consistency_score", 0)
        total_transactions == Get(tx_data, "total_transactions", 0)
    IN [transactionFrequency |-> Min(100, monthly_txns * 2),
        averageTransactionValue |-> Min(avg_value, max_usd_value_cap),
        gasEfficiencyScore |-> gas_efficiency,
        crossChainActivityCount |-> active_chains,
        consistencyMetric |-> Max(0, Min(100, consistency)),
        totalTransactionCount |-> total_transactions,
        rawMonthlyCount |-> monthly_txns,
        dataQuality |-> IF Get(status_data, "success", FALSE) THEN 100 ELSE 25]

_process_defi_data(defi_data, status_data) ==
    LET unique_protocols == Get(defi_data, "unique_protocols", 0)
        total_balance == Get(defi_data, "total_balance_usd", 0)
        lp_positions == Get(defi_data, "lp_positions", 0)
        diversity_score == Get(defi_data, "diversity_score", 0)
        interaction_depth == Get(defi_data, "interaction_depth_score", 0)
        yield_farming == Get(defi_data, "yield_farming_active", 0)
    IN [protocolInteractionCount |-> unique_protocols,
        totalDeFiBalanceUSD |-> Min(total_balance, max_usd_value_cap),
        liquidityPositionCount |-> lp_positions,
        protocolDiversityScore |-> Max(0, Min(100, diversity_score)),
        interactionDepthScore |-> Max(0, Min(100, interaction_depth)),
        yieldFarmingActive |-> BoolToInt(yield_farming # 0),
        protocolInteractionScore |-> Min(100, unique_protocols * 10),
        dataQuality |-> IF Get(status_data, "success", FALSE) THEN 100 ELSE 25]

_process_staking_data(staking_data, status_data) ==
    LET total_staked == Get(staking_data, "total_staked_usd", 0)
        duration_days == Get(staking_data, "avg_duration_days", 0)
        platform_count == Get(staking_data, "platform_count", 0)
        claim_frequency == Get(staking_data, "claim_frequency", 0)
        loyalty_score == Get(staking_data, "staking_loyalty_score", 0)
        sophistication == Get(staking_data, "sophistication_score", 0)
    IN [totalStakedUSD |-> Min(total_staked, max_usd_value_cap),
        stakingDurationDays |-> duration_days,
        stakingPlatformCount |-> platform_count,
        rewardClaimFrequency |-> claim_frequency,
        stakingLoyaltyScore |-> loyalty_score,
        platformDiversityScore |-> Min(100, platform_count * 20),
        stakingSophisticationScore |-> sophistication,
        dataQuality |-> IF Get(status_data, "success", FALSE) THEN 100 ELSE 25]

\* Variant of _calculate_portfolio_volatility whose table has no entry for
\* "newcomer", which then gets the default.
_calculate_portfolio_volatility_no_newcomer(bundle) ==
    LET user_category == Get(Get(bundle, "user_analytics", EmptyDict),
                             "user_category", "newcomer")
    IN CASE user_category = "whale_power_user" -> 15
         [] user_category = "advanced_defi_user" -> 25
         [] user_category = "active_defi_user" -> 30
         [] user_category = "staking_focused_user" -> 20
         [] user_category = "active_crypto_user" -> 35
         [] OTHER -> 40

_calculate_portfolio_volatility(bundle) ==
    LET user_category == Get(Get(bundle, "user_analytics", EmptyDict),
                             "user_category", "newcomer")
    IN CASE user_category = "whale_power_user" -> 15
         [] user_category = "advanced_defi_user" -> 25
         [] user_category = "active_defi_user" -> 30
         [] user_category = "staking_focused_user" -> 20
         [] user_category = "active_crypto_user" -> 35
         [] user_category = "casual_user" -> 40
         [] user_category = "newcomer" -> 50
         [] OTHER -> 40

_get_risk_category_score(user_category) ==
    CASE user_category = "whale_power_user" -> 90
      [] user_category = "advanced_defi_user" -> 75
      [] user_category = "active_defi_user" -> 65
      [] user_category = "staking_focused_user" -> 80
      [] user_category = "active_crypto_user" -> 60
      [] user_category = "casual_user" -> 50
      [] user_category = "newcomer" -> 40
      [] OTHER -> 40

_process_risk_data(bundle, user_analytics) ==
    LET portfolio_value == Get(user_analytics, "total_portfolio_value_usd", 0)
        user_category == Get(user_analytics, "user_category", "newcomer")
        portfolio_volatility == _calculate_portfolio_volatility(bundle)
    IN [liquidationEventCount |-> 0,
        leverageRatio |-> 100,
        portfolioVolatility |-> portfolio_volatility,
        riskCategoryScore |-> _get_risk_category_score(user_category),
        volatilityScore |-> Max(0, 100 - portfolio_volatility * 2),
        portfolioValueUSD |-> Min(portfolio_value, max_usd_value_cap),
        userCategory |-> user_category]

_process_history_data(bundle, user_analytics) ==
    LET data_quality == Get(bundle, "data_quality_analysis", EmptyDict)
        overall_quality == Get(data_quality, "overall_quality_score", 0)
        activity_score == Get(user_analytics, "overall_activity_score", 0)
    IN [accountAgeScore |-> 50,
        activityConsistencyScore |-> overall_quality,
        engagementScore |-> Min(100, activity_score),
        overallQualityScore |-> overall_quality,
        dataCompletenessScore |-> Get(data_quality, "completeness_percentage", 0)]

_extract_behavioral_metrics(bundle) ==
    LET structured_metrics == Get(bundle, "structured_metrics", EmptyDict)
        user_analytics == Get(bundle, "user_analytics", EmptyDict)
        collection_status == Get(bundle, "collection_status", EmptyDict)
    IN [transaction_metrics |->
            _process_transaction_data(
                Get(structured_metrics, "transaction_metrics", EmptyDict),
                Get(collection_status, "alchemy", EmptyDict)),
        defi_metrics |->
            _process_defi_data(
                Get(structured_metrics, "defi_metrics", EmptyDict),
                Get(collection_status, "zapper", EmptyDict)),
        staking_metrics |->
            _process_staking_data(
                Get(structured_metrics, "staking_metrics", EmptyDict),
                Get(collection_status, "moralis", EmptyDict)),
        risk_metrics |-> _process_risk_data(bundle, user_analytics),
        history_metrics |-> _process_history_data(bundle, user_analytics)]

\* the validation loop of _format_for_smart_contract, for one value
ClampForContract(value) ==
    IF value > ContractValueCap THEN ContractValueCap
    ELSE IF value < 0 THEN 0
    ELSE value

_format_for_smart_contract(bm) ==
    LET tx == bm.transaction_metrics
        defi == bm.defi_metrics
        staking == bm.staking_metrics
        risk == bm.risk_metrics
        history == bm.history_metrics
        unclamped ==
            [transactionFrequency |-> tx.transactionFrequency,
             averageTransactionValue |-> tx.averageTransactionValue,
             gasEfficiencyScore |-> tx.gasEfficiencyScore,
             crossChainActivityCount |-> tx.crossChainActivityCount,
             consistencyMetric |-> tx.consistencyMetric,
             protocolInteractionCount |-> defi.protocolInteractionCount,
             totalDeFiBalanceUSD |-> defi.totalDeFiBalanceUSD,
             liquidityPositionCount |-> defi.liquidityPositionCount,
             protocolDiversityScore |-> defi.protocolDiversityScore,
             interactionDepthScore |-> defi.interactionDepthScore,
             yieldFarmingActive |-> defi.yieldFarmingActive,
             totalStakedUSD |-> staking.totalStakedUSD,
             stakingDurationDays |-> staking.stakingDurationDays,
             stakingPlatformCount |-> staking.stakingPlatformCount,
             rewardClaimFrequency |-> staking.rewardClaimFrequency,
             stakingLoyaltyScore |-> staking.stakingLoyaltyScore,
             platformDiversityScore |-> staking.platformDiversityScore,
             liquidationEventCount |-> risk.liquidationEventCount,
             leverageRatio |-> risk.leverageRatio,
             portfolioVolatility |-> risk.portfolioVolatility,
             accountAgeScore |-> history.accountAgeScore,
             activityConsistencyScore |-> history.activityConsistencyScore,
             engagementScore |-> history.engagementScore]
    IN [k \in DOMAIN unclamped |-> ClampForContract(unclamped[k])]

\* Variant of _get_fallback_metrics that leaves the risk defaults out.
_get_fallback_metrics_without_risk ==
    [transactionFrequency |-> 0, averageTransactionValue |-> 0,
     gasEfficiencyScore |-> 50, crossChainActivityCount |-> 0,
     consistencyMetric |-> 0,
     protocolInteractionCount |-> 0, totalDeFiBalanceUSD |-> 0,
     liquidityPositionCount |-> 0, protocolDiversityScore |-> 0,
     interactionDepthScore |-> 0, yieldFarmingActive |-> 0,
     totalStakedUSD |-> 0, stakingDurationDays |-> 0, stakingPlatformCount |-> 0,
     rewardClaimFrequency |-> 0, stakingLoyaltyScore |-> 0,
     platformDiversityScore |-> 0,
     accountAgeScore |-> 0, activityConsistencyScore |-> 0, engagementScore |-> 0]

_get_fallback_metrics ==
    [transactionFrequency |-> 0, averageTransactionValue |-> 0,
     gasEfficiencyScore |-> 50, crossChainActivityCount |-> 0,
     consistencyMetric |-> 0,
     protocolInteractionCount |-> 0, totalDeFiBalanceUSD |-> 0,
     liquidityPositionCount |-> 0, protocolDiversityScore |-> 0,
     interactionDepthScore |-> 0, yieldFarmingActive |-> 0,
     totalStakedUSD |-> 0, stakingDurationDays |-> 0, stakingPlatformCount |-> 0,
     rewardClaimFrequency |-> 0, stakingLoyaltyScore |-> 0,
     platformDiversityScore |-> 0,
     liquidationEventCount |-> 0, leverageRatio |-> 100, portfolioVolatility |-> 50,
     accountAgeScore |-> 0, activityConsistencyScore |-> 0, engagementScore |-> 0]

_generate_processing_metadata(bundle, bm, metrics, data_quality) ==
    [processing_status |-> "success",
     data_quality |-> data_quality,
     input_data_summary |->
         [user_category |-> Get(Get(bundle, "user_analytics", EmptyDict),
                                "user_category", "unknown"),
          data_grade |-> Get(Get(bundle, "data_quality_analysis", EmptyDict),
                             "quality_grade", "F")],
     validation_results |->
         [no_negative_values |-> \A k \in DOMAIN metrics : metrics[k] >= 0,
          within_bounds |-> \A k \in DOMAIN metrics : metrics[k] <= ContractValueCap],
     fallback_used |-> FALSE]

\* the except branch of process_user_behavioral_data
ErrorMetadata(error) ==
    [processing_status |-> "failed", error |-> error, fallback_used |-> TRUE]

required_fields ==
    {"transactionFrequency", "averageTransactionValue", "gasEfficiencyScore",
     "protocolInteractionCount", "totalDeFiBalanceUSD", "totalStakedUSD",
     "liquidationEventCount", "leverageRatio", "portfolioVolatility"}

\* validate_contract_format(...)['is_valid']
validate_contract_format(metrics) ==
    /\ \A k \in DOMAIN metrics : metrics[k] \in Int /\ ~(metrics[k] < 0)
    /\ \A f \in required_fields : f \in DOMAIN metrics

(***************************************************************************)
(* The two entry points as functions of what the fan-out produced.         *)
(***************************************************************************)
\* Steps of process_user_behavioral_data in which an exception can be raised
\* after the bundle is there; "none": no exception.
ProcessorFaults == {"none", "validation", "extraction", "formatting", "metadata"}

\* the same, and "aggregator_internal": an exception inside the try body of
\* fetch_user_comprehensive_data after the address was validated, which that
\* function catches itself.  fault = "aggregation" is kept for an exception
\* that escapes fetch_user_comprehensive_data.
Faults == ProcessorFaults \cup {"aggregator_internal"}

\* fetch_user_comprehensive_data for an address that failed _is_valid_address:
\* the ValueError is caught and the empty bundle is built from the address,
\* which raises AttributeError (.lower()) when the address is no str
FetchInvalid(a, start_time) ==
    IF a.isStr
    THEN [raised |-> FALSE,
          bundle |-> _get_empty_comprehensive_data(
                         a, start_time, "Invalid Ethereum address format")]
    ELSE [raised |-> TRUE, bundle |-> EmptyDict]

\* fetch_user_comprehensive_data for a valid address, from the collection
\* results on
FetchValid(a, results, start_time, internal_error) ==
    [raised |-> FALSE, bundle |-> BundleFrom(a, results, start_time, internal_error)]

\* steps 2 to 5 of the try body of process_user_behavioral_data, none raising
TryBody(bundle, wall_now) ==
    LET data_quality == _validate_data_quality(bundle, wall_now)
        behavioral_metrics == _extract_behavioral_metrics(bundle)
        metrics == _format_for_smart_contract(behavioral_metrics)
    IN [raised |-> FALSE,
        metrics |-> metrics,
        metadata |-> _generate_processing_metadata(
                         bundle, behavioral_metrics, metrics, data_quality)]

\* Variant of process_user_behavioral_data without its except branch: an
\* exception of a step leaves the call.
process_user_behavioral_data_unguarded(fetched, wall_now, f) ==
    IF fetched.raised \/ f # "none"
    THEN [raised |-> TRUE, metrics |-> EmptyDict, metadata |-> EmptyDict]
    ELSE TryBody(fetched.bundle, wall_now)

\* process_user_behavioral_data from the return of the fetch on: the try body
\* and its except branch
process_user_behavioral_data(fetched, wall_now, f) ==
    IF fetched.raised \/ f # "none"
    THEN [raised |-> FALSE,
          metrics |-> _get_fallback_metrics,
          metadata |-> ErrorMetadata(IF fetched.raised THEN "aggregation" ELSE f)]
    ELSE TryBody(fetched.bundle, wall_now)

(***************************************************************************)
(* contract_bridge.py: convert_dataprocessor_to_metrics.                   *)
(***************************************************************************)
\* Variant of ensure_minimum that returns the value as it came.
ensure_minimum_unfloored(value, minimum) == value

\* the inner function of convert_dataprocessor_to_metrics, on an int
ensure_minimum_nonnegative(value, minimum) == Max(value, 0)

ensure_minimum(value, minimum) == Max(value, minimum)

\* the call leaves its argument as it was (it only reads it with .get) and
\* returns a BehavioralMetrics
convert_dataprocessor_to_metrics(pd) ==
    [processed_data |-> pd,
     metrics |->
        [transactionFrequency |->
             ensure_minimum(Get(pd, "transactionFrequency", 0), 10),
         averageTransactionValue |->
             ensure_minimum(Get(pd, "averageTransactionValue", 0), 1000),
         gasEfficiencyScore |-> Max(Get(pd, "gasEfficiencyScore", 50), 50),
         crossChainActivityCount |-> Max(Get(pd, "crossChainActivityCount", 0), 1),
         consistencyMetric |-> Max(Get(pd, "consistencyMetric", 0), 25),
         protocolInteractionCount |->
             ensure_minimum(Get(pd, "protocolInteractionCount", 0), 3),
         totalDeFiBalanceUSD |->
             ensure_minimum(Get(pd, "totalDeFiBalanceUSD", 0), 2000),
         liquidityPositionCount |-> Max(Get(pd, "liquidityPositionCount", 0), 1),
         protocolDiversityScore |-> Max(Get(pd, "protocolDiversityScore", 0), 20),
         totalStakedUSD |-> Max(Get(pd, "totalStakedUSD", 0), 500),
         stakingDurationDays |-> Max(Get(pd, "stakingDurationDays", 0), 30),
         stakingPlatformCount |-> Max(Get(pd, "stakingPlatformCount", 0), 1),
         rewardClaimFrequency |-> Max(Get(pd, "rewardClaimFrequency", 0), 2),
         liquidationEventCount |-> Get(pd, "liquidationEventCount", 0),
         leverageRatio |-> Max(Get(pd, "leverageRatio", 100), 80),
         portfolioVolatility |-> Max(Get(pd, "portfolioVolatility", 25), 20),
         stakingLoyaltyScore |-> Max(Get(pd, "stakingLoyaltyScore", 50), 40),
         interactionDepthScore |-> Max(Get(pd, "interactionDepthScore", 50), 40),
         yieldFarmingActive |-> Max(Get(pd, "yieldFarmingActive", 0), 1),
         accountAgeScore |-> Max(Get(pd, "accountAgeScore", 50), 45),
         activityConsistencyScore |->
             Max(Get(pd, "activityConsistencyScore", 50), 40),
         engagementScore |-> Max(Get(pd, "engagementScore", 50), 40)]]

\* the DataProcessor output of examples/contract_bridge_example.py
\* ContractBridge._validate_data_quality: the six indicators, in order
quality_checks(metrics) ==
    <<metrics.transactionFrequency > 0,
      metrics.averageTransactionValue > 0,
      metrics.protocolInteractionCount > 0,
      metrics.totalDeFiBalanceUSD > 0,
      metrics.accountAgeScore >= 30,
      metrics.gasEfficiencyScore >= 25>>

minimum_required == 3

ContractBridge_validate_data_quality(metrics) ==
    LET checks == quality_checks(metrics)
        passed_checks == Cardinality({k \in DOMAIN checks : checks[k]})
    IN  passed_checks >= minimum_required

dataprocessor_output ==
    [transactionFrequency |-> 25, averageTransactionValue |-> 500,
     gasEfficiencyScore |-> 75, crossChainActivityCount |-> 3,
     consistencyMetric |-> 80, protocolInteractionCount |-> 5,
     totalDeFiBalanceUSD |-> 10000, liquidityPositionCount |-> 2,
     protocolDiversityScore |-> 60, totalStakedUSD |-> 5000,
     stakingDurationDays |-> 180, stakingPlatformCount |-> 2,
     rewardClaimFrequency |-> 8, liquidationEventCount |-> 0,
     leverageRatio |-> 100, portfolioVolatility |-> 25,
     stakingLoyaltyScore |-> 65, interactionDepthScore |-> 70,
     yieldFarmingActive |-> 1, accountAgeScore |-> 75,
     activityConsistencyScore |-> 80, engagementScore |-> 85]

\* the thresholds that occur in convert_dataprocessor_to_metrics, and the
\* values next to them
Thresholds == {1, 2, 3, 10, 20, 25, 30, 40, 45, 50, 80, 500, 1000, 2000}
ProbeValues == {0} \cup UNION {{t - 1, t, t + 1} : t \in Thresholds}

\* del d[k]
Without(d, k) == [x \in DOMAIN d \ {k} |-> d[x]]

\* arguments of convert_dataprocessor_to_metrics: a ContractMetrics with one
\* field set to a probe value, or with one field missing
ConvertInputs ==
    LET bases == {_get_fallback_metrics, dataprocessor_output}
    IN bases
       \cup {With(b, k, v) : b \in bases, k \in DOMAIN dataprocessor_output,
                             v \in ProbeValues}
       \cup {Without(b, k) : b \in bases, k \in DOMAIN dataprocessor_output}

(***************************************************************************)
(* The request: MultiChainDataAggregator.__init__ has run (clients), then  *)
(* one call of process_user_behavioral_data.                               *)
(***************************************************************************)
Durations == {FastCall, MediumCall, SlowCall}

\* body: how the try body of the client method ended in the last call; seen:
\* the branch of _collect_data_with_retry the last attempt ended in
NoTask == [st |-> "none", attempt |-> 0, wake |-> 0, hung |-> FALSE,
           body |-> "none", seen |-> "none", result |-> EmptyDict]

\* one attempt of _collect_data_with_retry begins at time t: the client call
\* answers after d seconds, or asyncio.wait_for cuts it at attempt_timeout
StartAttempt(attempt, t, d) ==
    [st |-> "running", attempt |-> attempt,
     wake |-> t + Min(d, attempt_timeout), hung |-> d >= attempt_timeout,
     body |-> "none", seen |-> "none", result |-> EmptyDict]

Pending == {x \in SourceSet : task[x].st \in {"running", "sleeping"}}

\* the time of the next event of the fan-out: a task waking, or the deadline
NextEventTime ==
    LET times == {task[x].wake : x \in Pending} \cup {request_timeout}
    IN CHOOSE t \in times : \A u \in times : t <= u

\* collection_tasks and task_names: the sources with a client, in code order
task_names == SelectSeq(Sources, LAMBDA x : clients[x])

\* asyncio.gather(*collection_tasks): the results in the order of the tasks
GatherResults == [i \in 1..Len(task_names) |-> task[task_names[i]].result]

\* Variant of ZipResults that names the results after all three sources, in
\* order, whether or not a source has a client.
ZipResultsAllSources(names, results) ==
    [x \in SourceSet |->
        LET i == CHOOSE j \in 1..Len(Sources) : Sources[j] = x
        IN IF i <= Len(results) THEN results[i] ELSE NotExecutedResult]

\* the loop over zip(task_names, results) and the fill of the missing slots
ZipResults(names, results) ==
    [x \in SourceSet |->
        IF \E i \in 1..Len(names) : names[i] = x
        THEN results[CHOOSE i \in 1..Len(names) : names[i] = x]
        ELSE NotExecutedResult]

\* the rest of the request once the collection results are there
Complete(a, results, f) ==
    \E fetched \in {FetchValid(a, results, StartEpoch, f = "aggregator_internal")} :
    \E out \in {process_user_behavioral_data(
                    fetched, StartEpoch + now',
                    IF f = "aggregator_internal" THEN "none" ELSE f)} :
       /\ collection_results' = results
       /\ raw_data' = fetched.bundle
       /\ fault' = f
       /\ raised' = [aggregator |-> fetched.raised, processor |-> out.raised]
       /\ contract_metrics' = out.metrics
       /\ processing_metadata' = out.metadata
       /\ pc' = "done"

\* MultiChainDataAggregator.__init__: a client whose constructor raises is
\* kept as None
InitPipeline ==
    /\ api_key \in [SourceSet -> BOOLEAN]
    /\ clients = [x \in SourceSet |-> Constructs(x, api_key[x])]
    /\ pc = "idle"
    /\ address = NotAStr
    /\ now = 0
    /\ task = [x \in SourceSet |-> NoTask]
    /\ collection_results = EmptyDict
    /\ raw_data = EmptyDict
    /\ raised = [aggregator |-> FALSE, processor |-> FALSE]
    /\ fault = "none"
    /\ contract_metrics = EmptyDict
    /\ processing_metadata = EmptyDict

\* the address fails validation: no fan-out, the whole request runs through
RejectAddress(a, f) ==
    /\ pc = "idle"
    /\ ~_is_valid_address(a)
    /\ \E fetched \in {FetchInvalid(a, StartEpoch)} :
       \E out \in {process_user_behavioral_data(fetched, StartEpoch, f)} :
          /\ address' = a
          /\ raw_data' = fetched.bundle
          /\ fault' = IF fetched.raised THEN "aggregation" ELSE f
          /\ raised' = [aggregator |-> fetched.raised, processor |-> out.raised]
          /\ contract_metrics' = out.metrics
          /\ processing_metadata' = out.metadata
          /\ pc' = "done"
    /\ UNCHANGED <<api_key, clients, now, task, collection_results>>
    /\ UNCHANGED <<convertVars, callVars, apiVars, loopVars, flowVars>>

\* the tasks are created and awaited under asyncio.wait_for(gather(...), 60);
\* collection_tasks is never empty, as the moralis client always exists
StartFanOut(a, durs) ==
    /\ pc = "idle"
    /\ _is_valid_address(a)
    /\ task_names # <<>>
    /\ ~api_key["moralis"] => durs["moralis"] = FastCall
    /\ address' = a
    /\ task' = [x \in SourceSet |->
                   IF clients[x] THEN StartAttempt(0, now, durs[x]) ELSE NoTask]
    /\ pc' = "gathering"
    /\ UNCHANGED <<api_key, clients, now, collection_results, raw_data, raised,
                   fault, contract_metrics, processing_metadata>>
    /\ UNCHANGED <<convertVars, callVars, apiVars, loopVars, flowVars>>

TaskEvent(x, st) ==
    /\ pc = "gathering"
    /\ task[x].st = st
    /\ task[x].wake = NextEventTime
    /\ now' = task[x].wake

\* the task returns result
Finish(t, result) == [t EXCEPT !.st = "done", !.result = result]

\* the task goes to asyncio.sleep(retry_delay) at time at
Backoff(t, at) == [t EXCEPT !.st = "sleeping", !.wake = at + collect_retry_delay]

\* collection_func(address) ended within the attempt timeout: the result is
\* recorded, or the except Exception branch retries or gives up
CallReturns(x, body, p) ==
    /\ TaskEvent(x, "running")
    /\ ~task[x].hung
    /\ LET r == collection_func(x, api_key[x], body, p)
           t == [task[x] EXCEPT !.body = body,
                                !.seen = IF r.raised THEN "exception" ELSE "returned"]
       IN task' = [task EXCEPT ![x] =
              IF ~r.raised
              THEN Finish(t, [success |-> TRUE, data |-> r.value, error |-> NoneStr,
                              attempts |-> t.attempt + 1, collection_time |-> now'])
              ELSE IF t.attempt = collect_max_retries - 1
              THEN Finish(t, [success |-> FALSE, data |-> EmptyDict,
                              error |-> "upstream error",
                              attempts |-> collect_max_retries,
                              collection_time |-> now'])
              ELSE Backoff(t, now')]
    /\ UNCHANGED <<api_key, clients, pc, address, collection_results, raw_data,
                   raised, fault, contract_metrics, processing_metadata>>
    /\ UNCHANGED <<convertVars, callVars, apiVars, loopVars, flowVars>>

\* a timer of the task fires: asyncio.wait_for(collection_func(address),
\* timeout=60) times out, and the task retries or gives up; or
\* asyncio.sleep(retry_delay) is over, and the next attempt begins with a call
\* that would take d seconds
TimerFires(x, d) ==
    /\ pc = "gathering"
    /\ task[x].st \in {"running", "sleeping"}
    /\ task[x].st = "running" => task[x].hung
    /\ task[x].wake = NextEventTime
    /\ now' = task[x].wake
    /\ LET t == [task[x] EXCEPT !.seen = "timeout"]
       IN task' = [task EXCEPT ![x] =
              IF task[x].st = "sleeping"
              THEN StartAttempt(task[x].attempt + 1, now', d)
              ELSE IF t.attempt = collect_max_retries - 1
              THEN Finish(t, [success |-> FALSE, data |-> EmptyDict,
                              error |-> x \o " timeout after 3 attempts",
                              attempts |-> collect_max_retries,
                              collection_time |-> now'])
              ELSE Backoff(t, now')]
    /\ UNCHANGED <<api_key, clients, pc, address, collection_results, raw_data,
                   raised, fault, contract_metrics, processing_metadata>>
    /\ UNCHANGED <<convertVars, callVars, apiVars, loopVars, flowVars>>

\* every task is done before the deadline: gather returns, the request finishes
GatherCompletes(f) ==
    /\ pc = "gathering"
    /\ Pending = {}
    /\ now' = now
    /\ Complete(address, ZipResults(task_names, GatherResults), f)
    /\ UNCHANGED <<api_key, clients, address, task>>
    /\ UNCHANGED <<convertVars, callVars, apiVars, loopVars, flowVars>>

\* the deadline passes with a task still pending: asyncio.TimeoutError
GlobalTimeout(f) ==
    /\ pc = "gathering"
    /\ Pending # {}
    /\ NextEventTime = request_timeout
    /\ now' = request_timeout
    /\ Complete(address, GlobalTimeoutResults, f)
    /\ UNCHANGED <<api_key, clients, address, task>>
    /\ UNCHANGED <<convertVars, callVars, apiVars, loopVars, flowVars>>

ConvertIdle ==
    /\ processed_data = EmptyDict
    /\ enhanced_metrics = EmptyDict

\* no helper function is called on its own
NoCall == [fn |-> "none"]
NoReturn == [done |-> FALSE]

CallIdle ==
    /\ call = NoCall
    /\ returned = NoReturn

\* no request has reached the API
NoResponse == [route |-> "none"]

\* a function that returned None
ReturnsNone == [isNone |-> TRUE]

\* no retry loop is run on its own
NoLoop == [fn |-> "none", arg |-> "none", st |-> "returned", attempt |-> 0,
           history |-> <<>>, slept |-> 0, result |-> ReturnsNone]

LoopIdle == loop = NoLoop

\* no calculate-score request is in progress, no score is stored
MaxRequests == 2

Requests == 1..MaxRequests

IdleRequest ==
    [pc |-> "idle", force_refresh |-> FALSE, in_cooldown |-> FALSE, wake |-> 0,
     steps |-> <<>>, status |-> 0, success |-> FALSE, cache_used |-> FALSE,
     flow |-> [returned |-> FALSE, success |-> FALSE, error |-> "None"]]

NoScore == [isActive |-> FALSE, lastUpdated |-> 0]

FlowIdle ==
    /\ requests = [i \in Requests |-> IdleRequest]
    /\ chain = [score |-> NoScore, updates |-> <<>>]

ApiIdle ==
    /\ gemini_ai = TRUE
    /\ clock = StartEpoch
    /\ request_history = <<>>
    /\ response = NoResponse

Init == InitPipeline /\ ConvertIdle /\ CallIdle /\ ApiIdle /\ LoopIdle /\ FlowIdle

Next ==
    \/ \E a \in Addresses, f \in ProcessorFaults : RejectAddress(a, f)
    \/ \E a \in Addresses, durs \in [SourceSet -> Durations] : StartFanOut(a, durs)
    \/ \E x \in SourceSet, body \in Bodies : \E p \in Payloads(x) :
          CallReturns(x, body, p)
    \/ \E x \in SourceSet, d \in Durations : TimerFires(x, d)
    \/ \E f \in Faults : GatherCompletes(f)
    \/ \E f \in Faults : GlobalTimeout(f)

Spec == Init /\ [][Next]_vars

(***************************************************************************)
(* convert_dataprocessor_to_metrics on its own: the argument is drawn from *)
(* ConvertInputs and the function is applied to it once.                   *)
(***************************************************************************)
InitConvert ==
    /\ InitPipeline
    /\ api_key = [x \in SourceSet |-> TRUE]
    /\ processed_data \in ConvertInputs
    /\ enhanced_metrics = EmptyDict
    /\ CallIdle
    /\ ApiIdle
    /\ LoopIdle
    /\ FlowIdle

Convert ==
    /\ enhanced_metrics = EmptyDict
    /\ \E out \in {convert_dataprocessor_to_metrics(processed_data)} :
          /\ processed_data' = out.processed_data
          /\ enhanced_metrics' = out.metrics
    /\ UNCHANGED <<pipelineVars, callVars, apiVars, loopVars, flowVars>>

NextConvert == Convert

SpecConvert == InitConvert /\ [][NextConvert]_vars

(***************************************************************************)
(* Helper functions called on their own, with the arguments their callers  *)
(* can pass.                                                               *)
(***************************************************************************)
\* the most a client reports as data_quality_score
MaxDataQualityScore == 100

\* _get_quality_grade as _calculate_comprehensive_data_quality calls it: with
\* total_quality / max(1, successful_sources) and successful_sources / 3 * 100
GradeCalls ==
    {c \in [fn : {"_get_quality_grade"}, successful_sources : 0..TotalSources,
            total_quality : 0..(TotalSources * MaxDataQualityScore)] :
        c.total_quality <= c.successful_sources * MaxDataQualityScore}

\* _categorize_user_profile as _calculate_comprehensive_user_analytics calls
\* it: the activity score is min(100, 2 tx + 5 defi + 10 staking); the values
\* lie on both sides of every threshold of the decision table
PortfolioValues == {0, 100, 101, 1001, 5001, 10001, 50001, 100001}
Sophistications2 == {2 * 60, 2 * 60 + 1, 2 * 80 + 1}
TxActivities == {0, 10, 11, 40}
DefiActivities == {0, 5, 6}
StakingActivities == {0, 2, 3}

CategoryCalls ==
    {[fn |-> "_categorize_user_profile", portfolio_value |-> p,
      activity_score |-> Min(100, t * 2 + d * 5 + k * 10), sophistication2 |-> s,
      tx_activity |-> t, defi_activity |-> d, staking_activity |-> k] :
        p \in PortfolioValues, s \in Sophistications2, t \in TxActivities,
        d \in DefiActivities, k \in StakingActivities}

Calls == GradeCalls \cup CategoryCalls

InitCalls ==
    /\ InitPipeline
    /\ api_key = [x \in SourceSet |-> TRUE]
    /\ ConvertIdle
    /\ call \in Calls
    /\ returned = NoReturn
    /\ ApiIdle
    /\ LoopIdle
    /\ FlowIdle

Return(value) ==
    /\ returned = NoReturn
    /\ returned' = [done |-> TRUE, value |-> value]
    /\ UNCHANGED <<pipelineVars, convertVars, call, apiVars, loopVars, flowVars>>

GradeCall ==
    /\ call.fn = "_get_quality_grade"
    /\ Return(_get_quality_grade(call.total_quality, call.successful_sources))

CategoryCall ==
    /\ call.fn = "_categorize_user_profile"
    /\ Return(_categorize_user_profile(call.portfolio_value, call.activity_score,
                                       call.sophistication2, call.tx_activity,
                                       call.defi_activity, call.staking_activity))

NextCalls ==
    \/ GradeCall
    \/ CategoryCall

SpecCalls == InitCalls /\ [][NextCalls]_vars

(***************************************************************************)
(* The retry loops on their own: `for attempt in range(max_retries)` of    *)
(* the aggregator and of the three clients.  One action is one iteration   *)
(* of the loop body, its sleep included; the outcome of the remote call of *)
(* the iteration is an input.  loop.history is the outcomes so far.        *)
(***************************************************************************)
alchemy_max_retries == 2
alchemy_retry_delay == 2
zapper_max_retries == 3
zapper_retry_delay == 2
moralis_max_retries == 2
moralis_retry_delay == 2

MoralisLoops == {"_get_wallet_tokens_with_retry", "_get_defi_positions_with_retry",
                 "_get_wallet_history_with_retry"}

RetryLoops == {"_collect_data_with_retry", "_get_chain_data_with_retry",
               "_get_data_with_retry"} \cup MoralisLoops

\* max_retries of the loop
MaxRetries(fn) ==
    CASE fn = "_collect_data_with_retry" -> collect_max_retries
      [] fn = "_get_chain_data_with_retry" -> alchemy_max_retries
      [] fn = "_get_data_with_retry" -> zapper_max_retries
      [] OTHER -> moralis_max_retries

\* what the remote call of one iteration can do
AttemptOutcomes(fn) ==
    CASE fn = "_collect_data_with_retry" -> {"returns", "timeout", "exception"}
      [] fn = "_get_chain_data_with_retry" ->
            {"returns", "connectivity_error", "exception"}
      [] OTHER -> {"http_200", "http_error", "exception"}

IsFailure(outcome) == outcome \notin {"returns", "http_200"}

\* Variant of LastAttempt that compares with max_retries itself.
LastAttemptOffByOne(attempt, max_retries) == attempt = max_retries

\* `if attempt == self.max_retries - 1`
LastAttempt(attempt, max_retries) == attempt = max_retries - 1

Pow2(n) == IF n = 0 THEN 1 ELSE IF n = 1 THEN 2 ELSE 4

\* a function that returned a mapping
ReturnsMapping(success, data, error, attempts) ==
    [isNone |-> FALSE, success |-> success, data |-> data, error |-> error,
     attempts |-> attempts]

\* the argument that tells the calls of one loop apart: the source name, the
\* chain name, the endpoint
LoopArgs(fn) ==
    CASE fn = "_collect_data_with_retry" -> SourceSet
      [] fn = "_get_chain_data_with_retry" ->
            {"ethereum", "polygon", "arbitrum", "optimism"}
      [] fn = "_get_data_with_retry" -> {"balances", "apps", "nft_balances", "tokens"}
      [] OTHER -> {"address"}

StartLoop(fn, arg) ==
    [fn |-> fn, arg |-> arg, st |-> "looping", attempt |-> 0, history |-> <<>>,
     slept |-> 0, result |-> ReturnsNone]

\* the iteration returned value
LoopReturns(l, outcome, value) ==
    [l EXCEPT !.st = "returned", !.history = Append(l.history, outcome),
              !.result = value]

\* the iteration ended without return after sleeping delay seconds: the next
\* value of range(max_retries), or the end of the for loop and of the
\* function, which then returns None
LoopContinues(l, outcome, delay) ==
    IF l.attempt + 1 < MaxRetries(l.fn)
    THEN [l EXCEPT !.attempt = l.attempt + 1, !.slept = l.slept + delay,
                   !.history = Append(l.history, outcome)]
    ELSE [l EXCEPT !.st = "returned", !.slept = l.slept + delay,
                   !.history = Append(l.history, outcome),
                   !.result = ReturnsNone]

\* one iteration of MultiChainDataAggregator._collect_data_with_retry
CollectIteration(l, outcome) ==
    IF outcome = "returns"
    THEN LoopReturns(l, outcome, ReturnsMapping(TRUE, "result", "None", l.attempt + 1))
    ELSE IF LastAttempt(l.attempt, collect_max_retries)
    THEN LoopReturns(l, outcome,
             ReturnsMapping(FALSE, "{}",
                            IF outcome = "timeout"
                            THEN l.arg \o " timeout after 3 attempts" ELSE "str(e)",
                            collect_max_retries))
    ELSE LoopContinues(l, outcome, collect_retry_delay)

\* one iteration of AlchemyClient._get_chain_data_with_retry; the four data
\* calls after the connectivity test turn their own failures into defaults
ChainIteration(l, outcome) ==
    IF outcome = "returns"
    THEN LoopReturns(l, outcome,
             ReturnsMapping(TRUE, l.arg \o " data", "None", l.attempt + 1))
    ELSE IF LastAttempt(l.attempt, alchemy_max_retries)
    THEN LoopReturns(l, outcome,
             ReturnsMapping(FALSE, l.arg \o " empty", "str(e)", alchemy_max_retries))
    ELSE LoopContinues(l, outcome,
             IF outcome = "connectivity_error" THEN alchemy_retry_delay
             ELSE alchemy_retry_delay * (l.attempt + 1))

\* one iteration of ZapperClient._get_data_with_retry: a status other than
\* 200 goes to the next attempt without sleeping
ZapperIteration(l, outcome) ==
    IF outcome = "http_200"
    THEN LoopReturns(l, outcome, ReturnsMapping(TRUE, "data", "None", l.attempt + 1))
    ELSE IF LastAttempt(l.attempt, zapper_max_retries)
    THEN LoopReturns(l, outcome,
             ReturnsMapping(FALSE, IF l.arg = "apps" THEN "{}" ELSE "[]",
                            IF outcome = "http_error" THEN "HTTP status" ELSE "str(e)",
                            zapper_max_retries))
    ELSE LoopContinues(l, outcome,
             IF outcome = "http_error" THEN 0
             ELSE zapper_retry_delay * Pow2(l.attempt))

\* one iteration of MoralisClient._get_wallet_tokens_with_retry,
\* _get_defi_positions_with_retry or _get_wallet_history_with_retry
MoralisIteration(l, outcome) ==
    IF outcome = "http_200"
    THEN LoopReturns(l, outcome, ReturnsMapping(TRUE, "result", "None", l.attempt + 1))
    ELSE IF LastAttempt(l.attempt, moralis_max_retries)
    THEN LoopReturns(l, outcome,
             ReturnsMapping(FALSE, "[]",
                            IF outcome = "http_error" THEN "HTTP status" ELSE "str(e)",
                            moralis_max_retries))
    ELSE LoopContinues(l, outcome,
             IF outcome = "http_error" THEN 0
             ELSE moralis_retry_delay * (l.attempt + 1))

Iterate(fn, outcome, next) ==
    /\ loop.fn = fn
    /\ loop.st = "looping"
    /\ outcome \in AttemptOutcomes(fn)
    /\ loop' = next
    /\ UNCHANGED <<pipelineVars, convertVars, callVars, apiVars, flowVars>>

CollectAttempt(outcome) ==
    Iterate("_collect_data_with_retry", outcome, CollectIteration(loop, outcome))

ChainAttempt(outcome) ==
    Iterate("_get_chain_data_with_retry", outcome, ChainIteration(loop, outcome))

ZapperAttempt(outcome) ==
    Iterate("_get_data_with_retry", outcome, ZapperIteration(loop, outcome))

MoralisAttempt(fn, outcome) ==
    Iterate(fn, outcome, MoralisIteration(loop, outcome))

Outcomes == {"returns", "timeout", "exception", "connectivity_error",
             "http_200", "http_error"}

InitRetry ==
    /\ InitPipeline
    /\ api_key = [x \in SourceSet |-> TRUE]
    /\ ConvertIdle
    /\ CallIdle
    /\ ApiIdle
    /\ \E fn \in RetryLoops : loop \in {StartLoop(fn, arg) : arg \in LoopArgs(fn)}
    /\ FlowIdle

NextRetry ==
    \/ \E outcome \in Outcomes : CollectAttempt(outcome)
    \/ \E outcome \in Outcomes : ChainAttempt(outcome)
    \/ \E outcome \in Outcomes : ZapperAttempt(outcome)
    \/ \E fn \in MoralisLoops, outcome \in Outcomes : MoralisAttempt(fn, outcome)

SpecRetry == InitRetry /\ [][NextRetry]_vars

(***************************************************************************)
(* The API front door (credit_score_api.py).  Each route handler is one    *)
(* action: it tests the address it received, does the rate-limit           *)
(* bookkeeping, and calls the contract bridge and the data processor.      *)
(* What the chain holds for an address and what the contract flow returns  *)
(* are inputs; response records what the handler did with the address.     *)
(***************************************************************************)
\* config.RATE_LIMIT_PER_MINUTE is read from the environment (default 10)
RATE_LIMIT_PER_MINUTE == 2
RateWindow == 60
ClockStep == 30
ClockSpan == 60

\* `not v or len(v) != 42 or not v.startswith('0x')`
InvalidFormat(v) ==
    \/ Len(v.chars) = 0
    \/ Len(v.chars) # AddressLength
    \/ ~(Len(v.chars) >= 2 /\ v.chars[1] = "0" /\ v.chars[2] = "x")

\* CalculateScoreRequest.validate_address
validate_address(v) ==
    IF InvalidFormat(v)
    THEN [raised |-> TRUE, value |-> v]
    ELSE [raised |-> FALSE, value |-> Str(Lower(v.chars))]

\* the address strings a caller sends: well formed, with a body that is not
\* hexadecimal, of a wrong length, without the prefix, empty
ApiAddresses ==
    { ValidAddress,
      Str(<<"0", "x">> \o WithCharAt(Body(BodyLength, "a", "F"), 1, "G")),
      Str(<<"0", "x">> \o Body(BodyLength - 1, "a", "F")),
      Str(Body(BodyLength, "a", "F")),
      Str(<<>>) }

\* Variant of rate_limit_check that appends the time of a rejected request too.
rate_limit_check_recording_rejected(history, a, t) ==
    LET known == IF a \in DOMAIN history THEN history[a] ELSE <<>>
        InWindow(req_time) == t - req_time < RateWindow
        recent == SelectSeq(known, InWindow)
    IN  [allowed |-> Len(recent) < RATE_LIMIT_PER_MINUTE,
         history |-> [k \in DOMAIN history \cup {a} |->
                         IF k = a THEN Append(recent, t) ELSE history[k]]]

\* rate_limit_check(address) at time t: the new request_history and the result
rate_limit_check(history, a, t) ==
    LET known == IF a \in DOMAIN history THEN history[a] ELSE <<>>
        InWindow(req_time) == t - req_time < RateWindow
        recent == SelectSeq(known, InWindow)
        allowed == Len(recent) < RATE_LIMIT_PER_MINUTE
        kept == IF allowed THEN Append(recent, t) ELSE recent
    IN  [allowed |-> allowed,
         history |-> [k \in DOMAIN history \cup {a} |->
                         IF k = a THEN kept ELSE history[k]]]

\* ContractBridge.get_credit_score: raises ValueError when w3.is_address
\* fails; otherwise the chain holds an active score, none, or the call fails
ScoreLookups(a) ==
    IF _is_valid_address(a) THEN {"active", "inactive", "raises"} ELSE {"raises"}

\* DataProcessor.process_user_behavioral_data as the handler sees it: the
\* normalized vector with processing_status success, or the fallback vector
\* with processing_status failed; an address the aggregator rejects gives
\* what the processor makes of the empty bundle
RejectedProcessing ==
    [a \in {Str(Lower(v.chars)) : v \in {w \in ApiAddresses : ~InvalidFormat(w)}},
     t \in StartEpoch..(StartEpoch + ClockSpan) |->
        IF _is_valid_address(a) THEN [raised |-> FALSE]
        ELSE process_user_behavioral_data(FetchInvalid(a, t), t, "none")]

ProcessorResults(a, t) ==
    LET failed == [metrics |-> _get_fallback_metrics, processing_status |-> "failed"]
        rejected == RejectedProcessing[a, t]
    IN  IF _is_valid_address(a)
        THEN {[metrics |-> dataprocessor_output, processing_status |-> "success"],
              failed}
        ELSE {[metrics |-> rejected.metrics,
               processing_status |-> rejected.metadata.processing_status],
              failed}

\* how the three contract steps of the flow end: all succeed, or a step
\* raises with this message
FlowOutcomes(a) ==
    IF _is_valid_address(a)
    THEN {"success", "Update too frequent", "Unauthorized provider",
          "Transaction failed"}
    ELSE {"Invalid user address"}

\* ContractBridge.full_score_calculation_flow: convert_dataprocessor_to_metrics,
\* then the contract steps; its `except Exception` turns every failure into a
\* returned mapping with success False
\* the flow submitting the metrics as it received them, without enhancement
full_score_calculation_flow_unconverted(metrics, outcome) ==
    [raised |-> FALSE,
     success |-> outcome = "success",
     error |-> IF outcome = "success" THEN "None" ELSE outcome,
     sent |-> metrics]

full_score_calculation_flow(metrics, outcome) ==
    [raised |-> FALSE,
     success |-> outcome = "success",
     error |-> IF outcome = "success" THEN "None" ELSE outcome,
     sent |-> convert_dataprocessor_to_metrics(metrics).metrics]

cooldown_period == 1800

\* seconds since the last update of the active score that the chain holds
ScoreAges == {cooldown_period - 1, cooldown_period}

\* Variant of check_contract_cooldown whose cooldown ends one second early.
check_contract_cooldown_short(lookup, time_diff) ==
    lookup = "active" /\ time_diff < cooldown_period - 1

\* check_contract_cooldown: in cooldown when the score is active and
\* time_diff < cooldown_period; an exception of the bridge means no cooldown
check_contract_cooldown(lookup, time_diff) ==
    lookup = "active" /\ time_diff < cooldown_period

Respond(route, v, status, success, limited, bridge, collected) ==
    response' = [route |-> route, address |-> v, key |-> Lower(v.chars),
                 status |-> status, success |-> success, limited |-> limited, bridge |-> bridge,
                 collected |-> collected]

\* a response of calculate-score before the handler has done anything
ScoreResponse(v, force_refresh) ==
    [route |-> "calculate-score", address |-> v, key |-> Lower(v.chars),
     force_refresh |-> force_refresh,
     status |-> 422, success |-> FALSE, limited |-> FALSE, bridge |-> FALSE,
     collected |-> FALSE, lookup |-> "none", time_diff |-> 0,
     in_cooldown |-> FALSE, bridge_fresh |-> "none",
     rate_limited |-> FALSE, cache_used |-> FALSE, processing_status |-> "none",
     flow_called |-> FALSE, flow_error |-> "None", flow_metrics |-> EmptyDict,
     sent |-> EmptyDict]

\* the handler after full_score_calculation_flow returned or raised
AfterFlow(r, flow) ==
    IF flow.raised
    THEN IF flow.error = "Update too frequent"
         THEN \E existing \in {"active", "inactive", "raises"} :
                 response' = IF existing = "active"
                             THEN [r EXCEPT !.status = 200, !.success = TRUE,
                                            !.rate_limited = TRUE, !.cache_used = TRUE]
                             ELSE [r EXCEPT !.status = 429]
         ELSE IF flow.error = "Unauthorized provider"
         THEN response' = [r EXCEPT !.status = 403]
         ELSE response' = [r EXCEPT !.status = 500]
    ELSE IF ~flow.success
    THEN response' = [r EXCEPT !.status = 500]
    ELSE response' = [r EXCEPT !.status = 200, !.success = TRUE]

\* POST /api/calculate-score
calculate_credit_score(v, force_refresh) ==
    LET validated == validate_address(v)
        a == validated.value
        checked == rate_limit_check(request_history, a.chars, clock)
        r0 == ScoreResponse(v, force_refresh)
    IN  /\ IF validated.raised
           THEN /\ response' = r0
                /\ UNCHANGED request_history
           ELSE /\ request_history' = checked.history
                /\ IF ~checked.allowed
                   THEN response' = [r0 EXCEPT !.status = 429, !.limited = TRUE]
                   ELSE \E lookup \in ScoreLookups(a) :
                        \E time_diff \in IF lookup = "active" THEN ScoreAges ELSE {0} :
                           LET in_cooldown ==
                                   check_contract_cooldown(lookup, time_diff)
                               r1 == [r0 EXCEPT !.limited = TRUE, !.bridge = TRUE,
                                                !.lookup = lookup,
                                                !.time_diff = time_diff,
                                                !.in_cooldown = in_cooldown]
                           IN  IF in_cooldown /\ ~force_refresh
                               THEN response' =
                                       [r1 EXCEPT !.status = 200, !.success = TRUE,
                                                  !.rate_limited = TRUE,
                                                  !.cache_used = TRUE]
                               ELSE \E constructs \in BOOLEAN :
                                    IF ~constructs
                                    THEN response' =
                                            [r1 EXCEPT !.status = 200,
                                                       !.bridge_fresh = "raised"]
                                    ELSE \E processed \in ProcessorResults(a, clock),
                                            outcome \in FlowOutcomes(a) :
                                         \E flow \in {full_score_calculation_flow(
                                                          processed.metrics, outcome)} :
                                         AfterFlow(
                                            [r1 EXCEPT
                                               !.bridge_fresh = "constructed",
                                               !.collected = TRUE,
                                               !.processing_status =
                                                   processed.processing_status,
                                               !.flow_called = TRUE,
                                               !.flow_error = flow.error,
                                               !.flow_metrics = processed.metrics,
                                               !.sent = flow.sent],
                                            flow)
        /\ UNCHANGED <<gemini_ai, clock>>
        /\ UNCHANGED <<pipelineVars, convertVars, callVars, loopVars, flowVars>>

\* GET /api/score/{address}
get_credit_score(v) ==
    LET a == Str(Lower(v.chars))
        checked == rate_limit_check(request_history, a.chars, clock)
    IN  /\ IF InvalidFormat(v)
           THEN /\ Respond("score", v, 400, FALSE, FALSE, FALSE, FALSE)
                /\ UNCHANGED request_history
           ELSE /\ request_history' = checked.history
                /\ IF ~checked.allowed
                   THEN Respond("score", v, 429, FALSE, TRUE, FALSE, FALSE)
                   ELSE \E lookup \in ScoreLookups(a) :
                        IF lookup = "raises"
                        THEN Respond("score", v, 200, FALSE, TRUE, TRUE, FALSE)
                        ELSE IF lookup = "inactive"
                        THEN Respond("score", v, 404, FALSE, TRUE, TRUE, FALSE)
                        ELSE Respond("score", v, 200, TRUE, TRUE, TRUE, FALSE)
        /\ UNCHANGED <<gemini_ai, clock>>
        /\ UNCHANGED <<pipelineVars, convertVars, callVars, loopVars, flowVars>>

\* GET /api/preview/{address}: the HTTPException of the address test is
\* caught by the handler's own `except Exception`
preview_score_calculation(v, previewed) ==
    /\ IF InvalidFormat(v)
       THEN /\ ~previewed
            /\ Respond("preview", v, 200, FALSE, FALSE, FALSE, FALSE)
       ELSE Respond("preview", v, 200, previewed, FALSE, FALSE, TRUE)
    /\ UNCHANGED <<gemini_ai, clock, request_history>>
    /\ UNCHANGED <<pipelineVars, convertVars, callVars, loopVars, flowVars>>

\* GET /api/analyze/{address}
analyze_existing_score(v) ==
    LET a == Str(Lower(v.chars))
    IN  /\ IF InvalidFormat(v)
           THEN Respond("analyze", v, 400, FALSE, FALSE, FALSE, FALSE)
           ELSE IF ~gemini_ai
           THEN Respond("analyze", v, 503, FALSE, FALSE, FALSE, FALSE)
           ELSE \E lookup \in ScoreLookups(a) :
                IF lookup = "raises"
                THEN Respond("analyze", v, 200, FALSE, FALSE, TRUE, FALSE)
                ELSE IF lookup = "inactive"
                THEN Respond("analyze", v, 404, FALSE, FALSE, TRUE, FALSE)
                ELSE Respond("analyze", v, 200, TRUE, FALSE, TRUE, FALSE)
        /\ UNCHANGED <<gemini_ai, clock, request_history>>
        /\ UNCHANGED <<pipelineVars, convertVars, callVars, loopVars, flowVars>>

\* GET /api/rate-limit-status/{address}
get_rate_limit_status(v) ==
    /\ IF InvalidFormat(v)
       THEN Respond("rate-limit-status", v, 200, FALSE, FALSE, FALSE, FALSE)
       ELSE Respond("rate-limit-status", v, 200, TRUE, FALSE, TRUE, FALSE)
    /\ UNCHANGED <<gemini_ai, clock, request_history>>
    /\ UNCHANGED <<pipelineVars, convertVars, callVars, loopVars, flowVars>>

\* time passes between two requests
ClockAdvances ==
    /\ clock + ClockStep <= StartEpoch + ClockSpan
    /\ clock' = clock + ClockStep
    /\ UNCHANGED <<gemini_ai, request_history, response>>
    /\ UNCHANGED <<pipelineVars, convertVars, callVars, loopVars, flowVars>>

\* the module is imported: GeminiAIService() either constructs or raises
InitApi ==
    /\ InitPipeline
    /\ api_key = [x \in SourceSet |-> TRUE]
    /\ ConvertIdle
    /\ CallIdle
    /\ gemini_ai \in BOOLEAN
    /\ clock = StartEpoch
    /\ request_history = <<>>
    /\ response = NoResponse
    /\ LoopIdle
    /\ FlowIdle

NextApi ==
    \/ \E v \in ApiAddresses, force_refresh \in BOOLEAN :
          calculate_credit_score(v, force_refresh)
    \/ \E v \in ApiAddresses : get_credit_score(v)
    \/ \E v \in ApiAddresses, previewed \in BOOLEAN :
          preview_score_calculation(v, previewed)
    \/ \E v \in ApiAddresses : analyze_existing_score(v)
    \/ \E v \in ApiAddresses : get_rate_limit_status(v)
    \/ ClockAdvances

SpecApi == InitApi /\ [][NextApi]_vars

(***************************************************************************)
(* Overlapping calculate-score requests for one address.  The handler is   *)
(* a coroutine of the single event loop: it runs without interruption      *)
(* from one await that really suspends to the next.  The rate-limit and    *)
(* cooldown checks and the construction of the fresh services form the     *)
(* first stretch (the bridge methods are async def but only make blocking  *)
(* web3 calls); process_user_behavioral_data suspends; each step of        *)
(* full_score_calculation_flow up to the following asyncio.sleep(5) is a   *)
(* stretch of its own.  The contract is the environment: a transaction     *)
(* is confirmed, reverted, or fails before it is sent.                     *)
(***************************************************************************)
FlowSpan == 15

sleep_after_step == 5

FlowAddress == Lower(ValidAddress.chars)

TransactionOutcomes == {"confirmed", "reverted", "not_sent"}

\* _send_transaction: a receipt with status 1 returns the hash; a reverted
\* transaction was sent and raises; a failure before send_raw_transaction raises
_send_transaction_ignoring_status(outcome) ==
    [raised |-> outcome = "not_sent", submitted |-> outcome # "not_sent"]

_send_transaction(outcome) ==
    [raised |-> outcome # "confirmed", submitted |-> outcome # "not_sent"]

\* the except branch of full_score_calculation_flow: the mapping it returns
FlowFailed(r, step, outcome) ==
    [r EXCEPT !.pc = "done", !.status = 500,
              !.steps = Append(r.steps, [step |-> step, outcome |-> outcome]),
              !.flow = [returned |-> TRUE, success |-> FALSE, error |-> outcome]]

\* the step returned: the flow goes to sleep for sleep_after_step seconds
FlowSleeps(r, step, outcome, position) ==
    [r EXCEPT !.pc = position, !.wake = clock + sleep_after_step,
              !.steps = Append(r.steps, [step |-> step, outcome |-> outcome])]

\* the handler up to its first suspension
ReceiveScoreRequest(i, force_refresh, reachable, constructs) ==
    LET r == requests[i]
        checked == rate_limit_check(request_history, FlowAddress, clock)
        lookup == IF ~reachable THEN "raises"
                  ELSE IF chain.score.isActive THEN "active" ELSE "inactive"
        time_diff == clock - chain.score.lastUpdated
        in_cooldown == check_contract_cooldown(lookup, time_diff)
        r1 == [r EXCEPT !.force_refresh = force_refresh,
                        !.in_cooldown = in_cooldown]
    IN  /\ r.pc = "idle"
        /\ request_history' = checked.history
        /\ requests' =
             [requests EXCEPT ![i] =
                 IF ~checked.allowed
                 THEN [r1 EXCEPT !.pc = "done", !.status = 429,
                                 !.in_cooldown = FALSE]
                 ELSE IF in_cooldown /\ ~force_refresh
                 THEN [r1 EXCEPT !.pc = "done", !.status = 200,
                                 !.success = TRUE, !.cache_used = TRUE]
                 ELSE IF ~constructs
                 THEN [r1 EXCEPT !.pc = "done", !.status = 200]
                 ELSE [r1 EXCEPT !.pc = "collecting"]]
        /\ UNCHANGED <<gemini_ai, clock, response, chain>>
        /\ UNCHANGED <<pipelineVars, convertVars, callVars, loopVars>>

\* the other requests that passed the checks and have not been answered
InFlight(i) == {j \in Requests \ {i} : requests[j].pc \notin {"idle", "done"}}

\* process_user_behavioral_data returned; step 1 of the flow
SubmitUpdate(i, outcome) ==
    LET r == requests[i]
        sent == _send_transaction(outcome)
    IN  /\ r.pc = "collecting"
        /\ requests' =
             [requests EXCEPT ![i] =
                 IF sent.raised
                 THEN FlowFailed(r, "updateBehavioralData", outcome)
                 ELSE FlowSleeps(r, "updateBehavioralData", outcome, "updated")]
        /\ chain' =
             IF sent.submitted
             THEN [chain EXCEPT !.updates =
                      Append(chain.updates,
                             [at |-> clock, by |-> i,
                              force_refresh |-> r.force_refresh,
                              in_flight |-> InFlight(i)])]
             ELSE chain
        /\ UNCHANGED apiVars
        /\ UNCHANGED <<pipelineVars, convertVars, callVars, loopVars>>

\* step 2 of the flow: a confirmed calculateCreditScore stores the score
SubmitCalculation(i, outcome) ==
    LET r == requests[i]
        sent == _send_transaction(outcome)
    IN  /\ r.pc = "updated"
        /\ clock >= r.wake
        /\ requests' =
             [requests EXCEPT ![i] =
                 IF sent.raised
                 THEN FlowFailed(r, "calculateCreditScore", outcome)
                 ELSE FlowSleeps(r, "calculateCreditScore", outcome, "calculated")]
        /\ chain' =
             IF outcome = "confirmed"
             THEN [chain EXCEPT !.score = [isActive |-> TRUE, lastUpdated |-> clock]]
             ELSE chain
        /\ UNCHANGED apiVars
        /\ UNCHANGED <<pipelineVars, convertVars, callVars, loopVars>>

\* step 3 of the flow and the rest of the handler
RetrieveScore(i, reachable) ==
    LET r == requests[i]
        outcome == IF reachable THEN "returned" ELSE "raised"
        step == [step |-> "getCreditScore", outcome |-> outcome]
    IN  /\ r.pc = "calculated"
        /\ clock >= r.wake
        /\ requests' =
             [requests EXCEPT ![i] =
                 IF ~reachable
                 THEN FlowFailed(r, "getCreditScore", outcome)
                 ELSE [r EXCEPT !.pc = "done", !.status = 200, !.success = TRUE,
                                !.steps = Append(r.steps, step),
                                !.flow = [returned |-> TRUE, success |-> TRUE,
                                          error |-> "None"]]]
        /\ UNCHANGED <<apiVars, chain>>
        /\ UNCHANGED <<pipelineVars, convertVars, callVars, loopVars>>

TimePasses ==
    /\ clock + sleep_after_step <= StartEpoch + FlowSpan
    /\ clock' = clock + sleep_after_step
    /\ UNCHANGED <<gemini_ai, request_history, response, flowVars>>
    /\ UNCHANGED <<pipelineVars, convertVars, callVars, loopVars>>

InitFlow ==
    /\ InitPipeline
    /\ api_key = [x \in SourceSet |-> TRUE]
    /\ ConvertIdle
    /\ CallIdle
    /\ ApiIdle
    /\ LoopIdle
    /\ FlowIdle

NextFlow ==
    \/ \E i \in Requests, force_refresh, reachable, constructs \in BOOLEAN :
          ReceiveScoreRequest(i, force_refresh, reachable, constructs)
    \/ \E i \in Requests, outcome \in TransactionOutcomes : SubmitUpdate(i, outcome)
    \/ \E i \in Requests, outcome \in TransactionOutcomes :
          SubmitCalculation(i, outcome)
    \/ \E i \in Requests, reachable \in BOOLEAN : RetrieveScore(i, reachable)
    \/ TimePasses

SpecFlow == InitFlow /\ [][NextFlow]_vars

(***************************************************************************)
(* Properties.                                                             *)
(***************************************************************************)
\* source x is recorded as collected in the collection results
Succeeded(x) == x \in DOMAIN collection_results /\ collection_results[x].success

\* the fan-out ran and no source succeeded
AllSourcesFailed ==
    /\ DOMAIN collection_results = SourceSet
    /\ \A x \in SourceSet : ~collection_results[x].success

\* the request ended on the global deadline: a task was still pending
EndedOnDeadline == pc = "done" /\ Pending # {}

\* '0x' followed by exactly 40 hexadecimal digits
WellFormedAddress(chars) ==
    /\ Len(chars) = 2 + 40
    /\ chars[1] = "0" /\ chars[2] = "x"
    /\ \A i \in 3..Len(chars) : chars[i] \in HexChars

StatusKeys == {"success", "attempts", "collection_time", "error"}

\* C1: whatever the address, the source outcomes and the step that raised,
\* every field of the returned ContractMetrics is an integer between 0 and
\* 1,000,000,000 and the vector passes validate_contract_format.
C1_MetricsWithinContractRange ==
    pc = "done" =>
        /\ ~raised.processor
        /\ DOMAIN contract_metrics # {}
        /\ \A k \in DOMAIN contract_metrics :
              contract_metrics[k] \in 0..ContractValueCap
        /\ validate_contract_format(contract_metrics)

\* a request in which one source succeeded, another failed, and the vector
\* is not the fallback
C1_Witness ==
    /\ pc = "done" /\ fault = "none"
    /\ Succeeded("zapper")
    /\ DOMAIN collection_results = SourceSet /\ ~Succeeded("alchemy")
    /\ contract_metrics.engagementScore > 0

\* C2: process_user_behavioral_data never raises; when the aggregation raises
\* into it, or validation, extraction, formatting or metadata generation
\* raises, it returns the fallback vector with processing_status 'failed' and
\* fallback_used true.
C2_NeverRaisesFallsBackOnFailure ==
    pc = "done" =>
        /\ ~raised.processor
        /\ fault \in (ProcessorFaults \ {"none"}) \cup {"aggregation"} =>
              /\ contract_metrics = _get_fallback_metrics
              /\ processing_metadata.processing_status = "failed"
              /\ processing_metadata.fallback_used = TRUE

\* extraction raised after data had been collected
C2_Witness ==
    /\ pc = "done" /\ fault = "extraction"
    /\ Succeeded("alchemy")
    /\ processing_metadata.processing_status = "failed"

\* C3: when all three sources fail for a valid address (every attempt raises
\* or times out, or the global timeout trips), the call returns exactly the
\* fallback vector together with processing_status 'failed'.
C3_AllSourcesFailedGivesFallback ==
    (pc = "done" /\ fault = "none" /\ AllSourcesFailed) =>
        /\ contract_metrics = _get_fallback_metrics
        /\ processing_metadata.processing_status = "failed"

\* C4: every bundle fetch_user_comprehensive_data produces for an address
\* string is returned, not raised, and its collection_status has exactly the
\* slots alchemy, zapper and moralis, each with success, attempts,
\* collection_time and error.
C4_BundleHasThreeStatusSlots ==
    (pc = "done" /\ address.isStr) =>
        /\ ~raised.aggregator
        /\ "collection_status" \in DOMAIN raw_data
        /\ DOMAIN raw_data.collection_status = SourceSet
        /\ \A x \in SourceSet : DOMAIN raw_data.collection_status[x] = StatusKeys

\* a client was not constructed and the source of another one succeeded
C4_Witness ==
    /\ pc = "done" /\ address.isStr /\ fault = "none"
    /\ \E x \in SourceSet : ~clients[x] /\ ~raw_data.collection_status[x].success
    /\ \E y \in SourceSet : Succeeded(y) /\ raw_data.collection_status[y].success
    /\ DOMAIN raw_data.collection_status = SourceSet

\* C5: for an address string that is not '0x' followed by exactly 40
\* hexadecimal digits no client is called and nothing is retried: no task is
\* created, every slot has attempts 0 and success false, and
\* completeness_percentage is 0.
C5_MalformedAddressCallsNoClient ==
    (pc = "done" /\ address.isStr /\ ~WellFormedAddress(address.chars)) =>
        /\ \A x \in SourceSet : task[x] = NoTask
        /\ collection_results = EmptyDict
        /\ \A x \in SourceSet :
              /\ raw_data.collection_status[x].success = FALSE
              /\ raw_data.collection_status[x].attempts = 0
        /\ raw_data.data_quality_analysis.completeness_percentage = 0

\* an address of the right length and prefix with a non-hexadecimal character
C5_Witness ==
    /\ pc = "done" /\ address.isStr /\ fault = "none"
    /\ Len(address.chars) = 2 + 40
    /\ \E i \in 3..Len(address.chars) : address.chars[i] \notin HexChars
    /\ raw_data.error = "Invalid Ethereum address format"

\* C6: when the global request timeout elapses with a task still pending, the
\* aggregator records every source as success false with 'Global timeout',
\* the sources whose task had finished included, and returns a bundle.
C6_GlobalTimeoutFailsEverySource ==
    EndedOnDeadline =>
        /\ now = request_timeout
        /\ ~raised.aggregator
        /\ \A x \in SourceSet :
              /\ collection_results[x].success = FALSE
              /\ collection_results[x].error = "Global timeout"
        /\ "collection_status" \in DOMAIN raw_data
        /\ fault # "aggregator_internal" =>
              \A x \in SourceSet :
                 /\ raw_data.collection_status[x].success = FALSE
                 /\ raw_data.collection_status[x].error = "Global timeout"

\* the deadline passed after a task had finished with success
C6_Witness ==
    /\ EndedOnDeadline
    /\ \E x \in SourceSet :
          /\ task[x].st = "done" /\ task[x].result.success
          /\ ~collection_results[x].success

\* C7: whatever the order in which the tasks finish and whichever clients are
\* missing, slot X of the collection results holds the result of the task of
\* source X, and the not-executed entry when X has no client.
C7_SlotHoldsOwnTaskResult ==
    (pc = "done" /\ DOMAIN collection_results = SourceSet /\ Pending = {}
       /\ task_names # <<>>) =>
        \A x \in SourceSet :
            collection_results[x] =
                IF clients[x] THEN task[x].result ELSE NotExecutedResult

\* alchemy has no client and moralis finished before zapper
C7_Witness ==
    /\ pc = "done" /\ ~clients["alchemy"]
    /\ Succeeded("zapper") /\ Succeeded("moralis")
    /\ collection_results["moralis"].collection_time
          < collection_results["zapper"].collection_time
    /\ collection_results["zapper"].data \in ZapperPayloads
    /\ collection_results["moralis"].data \in MoralisPayloads

\* C8: through aggregation and normalization, transactionFrequency equals
\* min(100, 2 * m) for the monthly transaction count m the transaction source
\* returned.
C8_TransactionFrequencyIsTwiceMonthlyCount ==
    (pc = "done" /\ fault = "none" /\ Succeeded("alchemy")) =>
        contract_metrics.transactionFrequency =
            Min(100, 2 * collection_results["alchemy"].data.monthly_txn_count.value)

\* the minimum of each floored field
Floor ==
    [transactionFrequency |-> 10, averageTransactionValue |-> 1000,
     gasEfficiencyScore |-> 50, crossChainActivityCount |-> 1,
     consistencyMetric |-> 25, protocolInteractionCount |-> 3,
     totalDeFiBalanceUSD |-> 2000, liquidityPositionCount |-> 1,
     protocolDiversityScore |-> 20, totalStakedUSD |-> 500,
     stakingDurationDays |-> 30, stakingPlatformCount |-> 1,
     rewardClaimFrequency |-> 2, leverageRatio |-> 80,
     portfolioVolatility |-> 20, stakingLoyaltyScore |-> 40,
     interactionDepthScore |-> 40, yieldFarmingActive |-> 1,
     accountAgeScore |-> 45, activityConsistencyScore |-> 40,
     engagementScore |-> 40]

\* C9: convert_dataprocessor_to_metrics returns max(input, floor) for every
\* floored field of its argument, passes liquidationEventCount through, and
\* leaves the argument as it was.
C9_ConvertAppliesFloorsAndKeepsInput ==
    [][(enhanced_metrics = EmptyDict /\ enhanced_metrics' # EmptyDict) =>
          /\ \A k \in DOMAIN Floor \cap DOMAIN processed_data :
                enhanced_metrics'[k] = Max(processed_data[k], Floor[k])
          /\ "liquidationEventCount" \in DOMAIN processed_data =>
                enhanced_metrics'.liquidationEventCount =
                    processed_data.liquidationEventCount
          /\ processed_data' = processed_data]_vars

\* transactionFrequency 3 became 10 while the argument still holds 3
C9_Witness ==
    /\ enhanced_metrics # EmptyDict
    /\ "transactionFrequency" \in DOMAIN processed_data
    /\ processed_data.transactionFrequency = 3
    /\ enhanced_metrics.transactionFrequency = 10

\* every source succeeded with its zero-activity payload
AllZeroActivity ==
    /\ DOMAIN collection_results = SourceSet
    /\ \A x \in SourceSet :
          /\ collection_results[x].success
          /\ collection_results[x].data = ZeroActivityPayload(x)

\* C10: when all three sources succeed with zero-activity payloads, every
\* field of the ContractMetrics is 0 except gasEfficiencyScore 50,
\* leverageRatio 100, portfolioVolatility 50 and accountAgeScore 50 (the
\* fixed placeholder), and the metadata has processing_status 'success' and
\* fallback_used false.
C10_ZeroActivityVector ==
    (pc = "done" /\ fault = "none" /\ AllZeroActivity) =>
        /\ contract_metrics = With(_get_fallback_metrics, "accountAgeScore", 50)
        /\ processing_metadata.processing_status = "success"
        /\ processing_metadata.fallback_used = FALSE

\* C10 as stated: the vector equals the fallback vector, accountAgeScore 0
\* included.
C10_ZeroActivityEqualsFallback ==
    (pc = "done" /\ fault = "none" /\ AllZeroActivity) =>
        /\ contract_metrics = _get_fallback_metrics
        /\ processing_metadata.processing_status = "success"
        /\ processing_metadata.fallback_used = FALSE

\* a request in which all three sources answered with no activity
C10_Witness ==
    /\ pc = "done" /\ fault = "none" /\ AllZeroActivity
    /\ processing_metadata.processing_status = "success"

\* the number of sources recorded as collected
SuccessCount == Cardinality({x \in SourceSet : Succeeded(x)})

\* the bundle was built from the collection results of the fan-out
BundleFromFanOut ==
    /\ pc = "done" /\ DOMAIN collection_results = SourceSet
    /\ fault # "aggregator_internal"

\* C11: completeness_percentage is k / 3 x 100 with the fraction dropped: 0,
\* 33, 66 and 100 for k = 0, 1, 2, 3 successful sources; 2 of 3 gives 66.
C11_CompletenessTruncates ==
    BundleFromFanOut =>
        raw_data.data_quality_analysis.completeness_percentage =
            CASE SuccessCount = 0 -> 0
              [] SuccessCount = 1 -> 33
              [] SuccessCount = 2 -> 66
              [] SuccessCount = 3 -> 100

\* C11 as stated: completeness_percentage is round(k / 3 x 100), 67 for 2 of 3.
C11_CompletenessRounds ==
    BundleFromFanOut =>
        raw_data.data_quality_analysis.completeness_percentage =
            CASE SuccessCount = 0 -> 0
              [] SuccessCount = 1 -> 33
              [] SuccessCount = 2 -> 67
              [] SuccessCount = 3 -> 100

\* exactly two of the three sources succeeded
C11_Witness ==
    /\ BundleFromFanOut /\ SuccessCount = 2
    /\ raw_data.data_quality_analysis.completeness_percentage = 66

\* the call of function fn has returned
Returned(fn) == call.fn = fn /\ returned.done

\* 0.7 x quality + 0.3 x completeness >= t for the arguments of the grade
\* call, both sides multiplied by 10 x max(1, successful_sources)
CombinedAtLeast(t) ==
    LET k == call.successful_sources
        d == IF k = 0 THEN 1 ELSE k
    IN 7 * call.total_quality + 100 * k * d >= 10 * t * d

Grades == {"A+", "A", "B+", "B", "C+", "C", "D", "F"}

CategoryOrder ==
    <<"whale_power_user", "advanced_defi_user", "active_defi_user",
      "staking_focused_user", "active_crypto_user", "casual_user">>

\* the condition of the rule of a category, on the arguments of the call
CategoryRule(label) ==
    CASE label = "whale_power_user" ->
            /\ call.portfolio_value > 100000 /\ call.activity_score > 80
            /\ call.sophistication2 > 2 * 80
      [] label = "advanced_defi_user" ->
            /\ call.portfolio_value > 50000 /\ call.activity_score > 60
            /\ call.sophistication2 > 2 * 60
      [] label = "active_defi_user" ->
            call.portfolio_value > 10000 /\ call.defi_activity > 5
      [] label = "staking_focused_user" ->
            call.staking_activity > 2 /\ call.portfolio_value > 5000
      [] label = "active_crypto_user" ->
            call.tx_activity > 10 /\ call.portfolio_value > 1000
      [] label = "casual_user" -> call.portfolio_value > 100

\* C13: _categorize_user_profile returns the label of the first rule, in the
\* order whale_power_user, advanced_defi_user, active_defi_user,
\* staking_focused_user, active_crypto_user, casual_user, whose condition
\* holds, and newcomer when none holds; an input satisfying several rules gets
\* the earliest.
C13_FirstMatchingRuleWins ==
    Returned("_categorize_user_profile") =>
        LET matching == {i \in DOMAIN CategoryOrder : CategoryRule(CategoryOrder[i])}
        IN IF matching = {}
           THEN returned.value = "newcomer"
           ELSE \E i \in matching :
                    /\ \A j \in matching : i <= j
                    /\ returned.value = CategoryOrder[i]

\* an input satisfying the whale, the advanced and the active_defi rule
C13_Witness ==
    /\ Returned("_categorize_user_profile")
    /\ CategoryRule("whale_power_user")
    /\ CategoryRule("advanced_defi_user")
    /\ CategoryRule("active_defi_user")
    /\ returned.value = "whale_power_user"

\* the request went through validation, extraction and formatting, and its
\* metadata was generated
Validated ==
    /\ pc = "done"
    /\ "data_quality" \in DOMAIN processing_metadata

\* the terms of the quality score, read off the bundle: successful slots,
\* collection within the staleness window, structured_metrics non-empty,
\* category other than newcomer
SuccessfulSlots ==
    Cardinality({x \in DOMAIN raw_data.collection_status :
                    raw_data.collection_status[x].success})

CollectedWithinWindow ==
    now - raw_data.collection_timestamp.value <= staleness_hours * SecondsPerHour

ScoreTerms ==
    SuccessfulSlots
    + (IF CollectedWithinWindow THEN 1 ELSE 0)
    + (IF raw_data.structured_metrics # EmptyDict THEN 1 ELSE 0)
    + (IF raw_data.user_analytics.user_category # "newcomer" THEN 1 ELSE 0)

\* C14: quality_score = min(100, 25 s + 25 f + 25 m + 25 n), with s the
\* successful slots, f = 1 iff the collection time is within the 24 h window,
\* m = 1 iff structured_metrics is non-empty, n = 1 iff the category is not
\* newcomer; the recommendation is proceed iff the score is at least 50; a
\* retry_collection or invalid verdict does not stop processing, and the
\* metadata carries the validation result.
C14_QualityScoreFormula ==
    /\ Validated =>
          LET dq == processing_metadata.data_quality
          IN /\ dq.quality_score = Min(100, 25 * ScoreTerms)
             /\ dq.recommendation = "proceed" <=> dq.quality_score >= 50
    /\ (pc = "done" /\ fault = "none" /\ address.isStr) =>
          /\ Validated
          /\ processing_metadata.processing_status = "success"
          /\ contract_metrics # EmptyDict

\* C15: for a bundle fetch_user_comprehensive_data has just returned, the
\* validation awards the 25 points of freshness and records no staleness and
\* no invalid-timestamp issue.
C15_FreshBundleGetsFreshnessBonus ==
    Validated =>
        LET dq == processing_metadata.data_quality
        IN /\ CollectedWithinWindow
           /\ \A i \in DOMAIN dq.issues :
                  dq.issues[i] \notin {"Invalid collection timestamp", "Data is stale"}
           /\ dq.quality_score >= Min(100, 25 * (SuccessfulSlots + 1))

\* C16: however the remote calls of a client method end, the method returns a
\* metrics mapping with the keys of its empty metrics present, at their zero
\* or neutral defaults when the remote calls failed, and no exception of it
\* reaches _collect_data_with_retry.
C16_ClientMethodsNeverRaise ==
    \A x \in SourceSet :
        /\ task[x].seen # "exception"
        /\ task[x].seen = "returned" =>
              /\ task[x].st = "done"
              /\ task[x].result.success
              /\ DOMAIN ZeroActivityPayload(x) \subseteq DOMAIN task[x].result.data
              /\ task[x].body = "raises" =>
                    task[x].result.data = ZeroActivityPayload(x)

\* the remote calls of all three clients failed in the same request
C16_Witness ==
    \A x \in SourceSet :
        /\ task[x].body = "raises" /\ task[x].seen = "returned"
        /\ task[x].result.success
        /\ task[x].result.data = ZeroActivityPayload(x)

\* the request ran the fan-out and gather returned before the deadline
GatherReturned ==
    /\ pc = "done" /\ DOMAIN collection_results = SourceSet /\ Pending = {}

\* C17: AlchemyClient and ZapperClient raise at construction when their key
\* is missing, and their source is then recorded with success false and
\* attempts 0 on every request; MoralisClient is constructed without its key
\* and answers every request with its fallback data, recorded as a success
\* of the first attempt.
C17_MissingKeyAtConstructionExceptMoralis ==
    /\ \A x \in {"alchemy", "zapper"} :
          ~api_key[x] =>
             /\ ~clients[x]
             /\ task[x] = NoTask
             /\ DOMAIN collection_results = SourceSet =>
                   /\ collection_results[x].success = FALSE
                   /\ collection_results[x].attempts = 0
    /\ ~api_key["moralis"] =>
          /\ clients["moralis"]
          /\ GatherReturned =>
                /\ collection_results["moralis"].success
                /\ collection_results["moralis"].attempts = 1
                /\ collection_results["moralis"].data = MoralisFallbackData

\* C17 as stated: every client raises at construction when its key is
\* missing, and the source is recorded with success false and attempts 0.
C17_MissingKeyAtConstruction ==
    \A x \in SourceSet :
        ~api_key[x] =>
           /\ ~clients[x]
           /\ DOMAIN collection_results = SourceSet =>
                 /\ collection_results[x].success = FALSE
                 /\ collection_results[x].attempts = 0

\* no key at all: alchemy and zapper have no client, moralis answered
C17_Witness ==
    /\ GatherReturned
    /\ \A x \in SourceSet : ~api_key[x]
    /\ collection_results["alchemy"] = NotExecutedResult
    /\ collection_results["zapper"] = NotExecutedResult
    /\ collection_results["moralis"].success
    /\ collection_results["moralis"].attempts = 1

\* the fields of each section that the contract requires
RequiredSectionFields ==
    [transaction_metrics |->
        {"transactionFrequency", "averageTransactionValue", "gasEfficiencyScore",
         "crossChainActivityCount", "consistencyMetric"},
     defi_metrics |->
        {"protocolInteractionCount", "totalDeFiBalanceUSD", "liquidityPositionCount",
         "protocolDiversityScore", "interactionDepthScore"},
     staking_metrics |->
        {"totalStakedUSD", "stakingDurationDays", "stakingPlatformCount",
         "rewardClaimFrequency", "stakingLoyaltyScore"}]

\* fetch_user_comprehensive_data returned a bundle
BundleReturned == pc = "done" /\ ~raised.aggregator

\* C18: every bundle fetch_user_comprehensive_data returns, whether the
\* sources succeeded or failed or the address was invalid, has in
\* structured_metrics the sections transaction_metrics, defi_metrics and
\* staking_metrics, each with its five required fields, every one an int.
C18_RequiredFieldsAreIntegers ==
    BundleReturned =>
        /\ "structured_metrics" \in DOMAIN raw_data
        /\ DOMAIN RequiredSectionFields \subseteq DOMAIN raw_data.structured_metrics
        /\ \A section \in DOMAIN RequiredSectionFields :
              \A field \in RequiredSectionFields[section] :
                 /\ field \in DOMAIN raw_data.structured_metrics[section]
                 /\ raw_data.structured_metrics[section][field].type = "int"

\* alchemy answered with a float average value, zapper has no client
C18_Witness ==
    /\ BundleReturned /\ fault = "none"
    /\ Succeeded("alchemy") /\ ~clients["zapper"]
    /\ collection_results["alchemy"].data.avg_value_usd = PyFloat(1500)
    /\ raw_data.structured_metrics.transaction_metrics.averageTransactionValue
          = PyInt(1500)
    /\ raw_data.structured_metrics.defi_metrics.totalDeFiBalanceUSD = PyInt(0)


(***************************************************************************)
(* The API front door                                                      *)
(***************************************************************************)
\* the handler let the address through: it did rate-limit bookkeeping for
\* it, or passed it to the contract bridge or to the data processor
LetThrough ==
    /\ response.route # "none"
    /\ (response.limited \/ response.bridge \/ response.collected)

\* C19: every address string that the API front door lets through passes
\* the exact check of length, prefix and hexadecimal body: rate-limit
\* bookkeeping exists only for such addresses, and only such an address is
\* passed to the contract bridge or to data collection.
C19_FrontDoorChecksHexBody ==
    /\ \A k \in DOMAIN request_history : _is_valid_address(Str(k))
    /\ LetThrough => _is_valid_address(response.address)


(***************************************************************************)
(* The two timeout layers                                                  *)
(***************************************************************************)
\* the call of the source did not return within the attempt timeout
CallTimedOut(x) == clients[x] /\ task[x].hung

\* C20: when the request is finished, a source whose call timed out on every
\* attempt is recorded with success false, attempts 3 and the error
\* '<source> timeout after 3 attempts', and every source whose task returned
\* a result keeps that result in the same bundle.
C20_TimedOutSourceRecordedAfterThreeAttempts ==
    (pc = "done" /\ _is_valid_address(address)) =>
        \A x \in SourceSet :
            /\ CallTimedOut(x) =>
                   /\ collection_results[x].success = FALSE
                   /\ collection_results[x].attempts = collect_max_retries
                   /\ collection_results[x].error = x \o " timeout after 3 attempts"
            /\ task[x].st = "done" => collection_results[x] = task[x].result


(***************************************************************************)
(* The retry loops                                                         *)
(***************************************************************************)
\* the number of attempts each loop may make
AttemptBound(fn) ==
    CASE fn = "_collect_data_with_retry" -> 3
      [] fn = "_get_chain_data_with_retry" -> 2
      [] fn = "_get_data_with_retry" -> 3
      [] OTHER -> 2

AllFailed(history) == \A i \in 1..Len(history) : IsFailure(history[i])

\* C21: every retry loop makes at most its bounded number of attempts (3 for
\* the aggregator, 2 for Alchemy, 3 for Zapper, 2 for the Moralis loops)
\* whatever the sequence of failures; it returns a mapping, never None; and
\* when every attempt failed the mapping has success false and is returned
\* after exactly that number of attempts.
C21_RetryLoopsAreBounded ==
    loop.fn # "none" =>
        /\ Len(loop.history) <= AttemptBound(loop.fn)
        /\ loop.st = "looping" => Len(loop.history) < AttemptBound(loop.fn)
        /\ loop.st = "returned" =>
               /\ ~loop.result.isNone
               /\ AllFailed(loop.history) =>
                      /\ Len(loop.history) = AttemptBound(loop.fn)
                      /\ loop.result.success = FALSE
               /\ ~AllFailed(loop.history) => loop.result.success = TRUE

\* the Zapper loop returned after three failed attempts
C21_Witness ==
    /\ loop.fn = "_get_data_with_retry"
    /\ loop.st = "returned"
    /\ Len(loop.history) = 3
    /\ AllFailed(loop.history)
    /\ loop.result.success = FALSE


(***************************************************************************)
(* What the aggregator records for a constructed client                    *)
(***************************************************************************)
\* C22: for a source whose client was constructed, a call that returns
\* within the attempt timeout is recorded by the task with success true and
\* attempts 1, also when every remote call inside the client failed; no
\* task sees an exception, so the retry on other errors is never taken;
\* and in the bundle of a request with a valid
\* address a slot has success false only when the source has no client or
\* a call timed out.
C22_ReturnedCallIsFirstAttemptSuccess ==
    /\ \A x \in SourceSet :
          /\ task[x].seen # "exception"
          /\ (clients[x] /\ task[x].seen = "returned") =>
                /\ task[x].result.success
                /\ task[x].result.attempts = 1
    /\ (pc = "done" /\ _is_valid_address(address)) =>
          \A x \in SourceSet :
             ~collection_results[x].success =>
                \/ ~clients[x]
                \/ \E y \in SourceSet : CallTimedOut(y)

\* gather returned with a source whose remote calls all failed, recorded as
\* a success of the first attempt, next to a source without a client
C22_Witness ==
    /\ GatherReturned
    /\ task["zapper"].body = "raises"
    /\ collection_results["zapper"].success
    /\ collection_results["zapper"].attempts = 1
    /\ ~clients["alchemy"]
    /\ ~collection_results["alchemy"].success


(***************************************************************************)
(* Rate limiting                                                           *)
(***************************************************************************)
\* the routes that call rate_limit_check
LimitedRoutes == {"calculate-score", "score"}

\* the entries of times that are less than 60 seconds before t
WithinMinute(times, t) == SelectSeq(times, LAMBDA r : t - r < 60)

HistoryOf(h, k) == IF k \in DOMAIN h THEN h[k] ELSE <<>>

\* a handler ran rate_limit_check for the address of the request in this step
RateLimitedStep ==
    /\ clock' = clock
    /\ response'.route \in LimitedRoutes
    /\ response'.limited

\* C23: for each address the recorded requests never exceed
\* RATE_LIMIT_PER_MINUTE and all lie within one 60-second window; a request
\* is admitted exactly when fewer than RATE_LIMIT_PER_MINUTE requests were
\* admitted for its address in the 60 seconds before it; a rejected request
\* is not added to the history; entries 60 seconds old or older are pruned;
\* and a request leaves the history of every other address as it was.
C23_SlidingWindowPerAddress ==
    [][/\ \A k \in DOMAIN request_history' :
             /\ Len(request_history'[k]) <= RATE_LIMIT_PER_MINUTE
             /\ \A i, j \in 1..Len(request_history'[k]) :
                   /\ request_history'[k][i] - request_history'[k][j] < 60
                   /\ i <= j => request_history'[k][i] <= request_history'[k][j]
       /\ IF RateLimitedStep
          THEN LET a == response'.key
                   before == WithinMinute(HistoryOf(request_history, a), clock)
                   admitted == response'.status # 429
               IN  /\ admitted <=> Len(before) < RATE_LIMIT_PER_MINUTE
                   /\ request_history'[a] =
                         IF admitted THEN Append(before, clock) ELSE before
                   /\ DOMAIN request_history' = DOMAIN request_history \cup {a}
                   /\ \A k \in DOMAIN request_history \ {a} :
                         request_history'[k] = request_history[k]
          ELSE request_history' = request_history]_vars

\* a request is rejected with the limit reached by requests of the last 60
\* seconds, after older ones were pruned, while another address has a
\* history of its own
C23_Witness ==
    /\ response.route = "score" /\ response.status = 429
    /\ clock = StartEpoch + ClockSpan
    /\ LET a == response.key
       IN  /\ Len(request_history[a]) = RATE_LIMIT_PER_MINUTE
           /\ request_history[a][1] > StartEpoch
           /\ \E k \in DOMAIN request_history \ {a} :
                 /\ Len(request_history[k]) = 1
                 /\ request_history[k][1] = StartEpoch


(***************************************************************************)
(* The contract cooldown                                                   *)
(***************************************************************************)
\* a calculate-score request that got past the rate limit
PastRateLimit ==
    /\ response.route = "calculate-score"
    /\ response.limited /\ response.status # 429

\* the response of the cooldown branch: the existing score, nothing collected
\* and no contract flow
CachedResponse ==
    /\ response.status = 200 /\ response.success
    /\ response.cache_used /\ response.rate_limited
    /\ ~response.collected /\ ~response.flow_called

\* the handler went past the cooldown branch: with the contract bridge
\* constructed it collects the data and runs the contract flow
FullCalculation ==
    /\ ~(response.cache_used /\ ~response.flow_called)
    /\ response.bridge_fresh # "none"
    /\ response.bridge_fresh = "constructed" =>
          response.collected /\ response.flow_called

\* C24: a calculate-score request for an address whose score on the chain is
\* active and was updated less than 1800 seconds ago returns, with
\* force_refresh false, the existing score with cache_used and rate_limited
\* true, without data collection or contract transaction; with force_refresh
\* true it goes on to the full calculation; and when the cooldown lookup
\* fails the request is treated as not in cooldown.
C24_CooldownReturnsCachedScore ==
    PastRateLimit =>
        /\ (response.lookup = "active" /\ response.time_diff < 1800) =>
              IF response.force_refresh THEN FullCalculation ELSE CachedResponse
        /\ response.lookup = "raises" => FullCalculation

\* the score is one second short of the end of the cooldown and the cached
\* score is returned
C24_Witness ==
    /\ PastRateLimit
    /\ response.lookup = "active" /\ response.time_diff = 1799
    /\ ~response.force_refresh
    /\ CachedResponse

Overlapped(u, w) == u.by \in w.in_flight \/ w.by \in u.in_flight

\* C25: for one address and requests without force_refresh, two requests
\* that overlap in time never both submit an updateBehavioralData
\* transaction within one cooldown window of 30 minutes.
C25_OverlappingRequestsSubmitOneUpdate ==
    \A m, n \in 1..Len(chain.updates) :
        LET u == chain.updates[m]
            w == chain.updates[n]
        IN  (m < n /\ ~u.force_refresh /\ ~w.force_refresh /\ Overlapped(u, w))
                => w.at - u.at >= cooldown_period

FlowOrder == <<"updateBehavioralData", "calculateCreditScore", "getCreditScore">>

StepNames(r) == [k \in 1..Len(r.steps) |-> r.steps[k].step]

StepCompleted(s) == s.outcome \in {"confirmed", "returned"}

\* C26: full_score_calculation_flow runs updateBehavioralData, then
\* calculateCreditScore, then getCreditScore; a step that fails is the last
\* step executed and the flow returns a mapping with success = false and the
\* error text (the handler answers from that mapping); success = true is
\* returned only after all three steps completed.
C26_FlowStepsInOrderAndStopAtFailure ==
    \A i \in Requests :
        LET r == requests[i]
            n == Len(r.steps)
        IN  /\ n <= Len(FlowOrder)
            /\ StepNames(r) = SubSeq(FlowOrder, 1, n)
            /\ \A k \in 1..n :
                  ~StepCompleted(r.steps[k])
                      => /\ k = n
                         /\ r.flow.returned
                         /\ ~r.flow.success
                         /\ r.flow.error = r.steps[k].outcome
                         /\ r.status = 500
            /\ (r.flow.returned /\ r.flow.success)
                  => /\ n = Len(FlowOrder)
                     /\ \A k \in 1..n : StepCompleted(r.steps[k])

C26_Witness ==
    \E i \in Requests :
        /\ Len(requests[i].steps) = 2
        /\ requests[i].steps[2].outcome = "reverted"
        /\ requests[i].flow.returned
        /\ ~requests[i].flow.success

FlowRejected(text) ==
    /\ response.route = "calculate-score"
    /\ response.flow_called
    /\ response.flow_error = text

\* C27: when the contract rejects the update with 'Update too frequent',
\* calculate-score answers with the existing active score (success,
\* cache_used and rate_limited all true) or with HTTP 429; an 'Unauthorized
\* provider' rejection is answered with HTTP 403; neither is an HTTP 500.
C27_ContractRejectionsHaveTheirOwnStatus ==
    /\ FlowRejected("Update too frequent")
          => \/ /\ response.status = 200
                /\ response.success
                /\ response.cache_used
                /\ response.rate_limited
             \/ response.status = 429
    /\ FlowRejected("Unauthorized provider") => response.status = 403

PassedChecks ==
    /\ response.route = "calculate-score"
    /\ response.bridge
    /\ ~(response.in_cooldown /\ ~response.force_refresh)

\* the fallback vector with every field at or above its enhancement floor
EnhancedFallback ==
    [transactionFrequency |-> 10, averageTransactionValue |-> 1000,
     gasEfficiencyScore |-> 50, crossChainActivityCount |-> 1,
     consistencyMetric |-> 25, protocolInteractionCount |-> 3,
     totalDeFiBalanceUSD |-> 2000, liquidityPositionCount |-> 1,
     protocolDiversityScore |-> 20, totalStakedUSD |-> 500,
     stakingDurationDays |-> 30, stakingPlatformCount |-> 1,
     rewardClaimFrequency |-> 2, liquidationEventCount |-> 0,
     leverageRatio |-> 100, portfolioVolatility |-> 50,
     stakingLoyaltyScore |-> 40, interactionDepthScore |-> 40,
     yieldFarmingActive |-> 1, accountAgeScore |-> 45,
     activityConsistencyScore |-> 40, engagementScore |-> 40]

C29_ConvertedMetricsPassEveryQualityCheck ==
    enhanced_metrics # EmptyDict
        => /\ \A k \in DOMAIN quality_checks(enhanced_metrics) :
                 quality_checks(enhanced_metrics)[k]
           /\ ContractBridge_validate_data_quality(enhanced_metrics)

C29_Witness ==
    /\ enhanced_metrics # EmptyDict
    /\ processed_data = _get_fallback_metrics
    /\ ~ContractBridge_validate_data_quality(processed_data)
    /\ ContractBridge_validate_data_quality(enhanced_metrics)

\* C30: _categorize_user_profile returns 'newcomer' exactly when the
\* portfolio value is at most 100, whatever the activity score, the
\* sophistication score and the three activity counts are.
C30_NewcomerIffPortfolioAtMost100 ==
    Returned("_categorize_user_profile")
        => (returned.value = "newcomer" <=> call.portfolio_value <= 100)

\* high activity on every axis and neither a DeFi nor a staking balance
C30_Witness ==
    /\ Returned("_categorize_user_profile")
    /\ call.portfolio_value = 0
    /\ call.tx_activity > 10
    /\ call.defi_activity > 5
    /\ call.staking_activity > 2
    /\ call.activity_score > 80
    /\ returned.value = "newcomer"

====
